---- MODULE Spec2Model ----
(***************************************************************************)
(* Model of the network volume manager (src/app/app.py): the FileSystem    *)
(* class working on a POSIX directory tree, with the asyncio handlers      *)
(* upload and upload_chunk interleaved at their await points.              *)
(*                                                                         *)
(* A file name is a sequence of symbols (<<"a", ".txt">> is "a.txt"), a    *)
(* path is a sequence of names, and str(path) is the sequence of symbols   *)
(* "/" name "/" name ...: startswith, with_suffix and the "/" operator of  *)
(* pathlib are computed on these sequences.                                *)
(***************************************************************************)
EXTENDS Integers, Sequences, FiniteSets, TLC

VARIABLES fs, base_dir, upload_dir, calls, hist, reasm, overlap, budget, touched, fs0,
          file_chunks

vars == <<fs, base_dir, upload_dir, calls, hist, reasm, overlap, budget, touched, fs0,
          file_chunks>>

(***************************************************************************)
(* Bounds of the model.                                                    *)
(***************************************************************************)
\* the largest total_chunks of a session
MaxChunks == 2
\* the request slots: how many handlers can be in flight together
MaxCalls == 2
\* how many requests are delivered in one behaviour
MaxDeliveries == 3
\* how many filesystem calls fail in one behaviour
MaxFaults == 1
\* how many requests are delivered in one behaviour of SpecOps
MaxOps == 1

(***************************************************************************)
(* Names and paths.                                                        *)
(***************************************************************************)
\* the decimal digits, for f"{chunk_index}.part"
Digits == <<"0", "1", "2", "3", "4", "5", "6", "7", "8", "9">>

\* str(i) of a chunk index
IntStr(i) == IF i < 0 THEN <<"-", Digits[1 - i]>> ELSE <<Digits[i + 1]>>

DotDot == <<"..">>

\* the symbols that are a suffix of a name: they begin with a dot
SuffixSyms == {".txt", ".tmp", ".png", ".part"}

\* PurePath.suffix: the last dot-part of the name, unless the name starts with it
suffix(name) ==
    IF Len(name) >= 2 /\ name[Len(name)] \in SuffixSyms
    THEN <<name[Len(name)]>> ELSE <<>>

\* PurePath.with_suffix applied to the last name of the path
with_suffix(path, suf) ==
    LET name == path[Len(path)]
        stem == SubSeq(name, 1, Len(name) - Len(suffix(name)))
    IN  SubSeq(path, 1, Len(path) - 1) \o <<stem \o <<suf>>>>

\* a path argument as pathlib parses it: absolute or not, and its names
Rel(segs) == [abs |-> FALSE, segs |-> segs]
Abs(segs) == [abs |-> TRUE, segs |-> segs]

\* the "/" operator of pathlib: an absolute right operand replaces the left
Join(path, p) == IF p.abs THEN p.segs ELSE path \o p.segs

RECURSIVE Flatten(_)
Flatten(ss) == IF ss = <<>> THEN <<>> ELSE Head(ss) \o Flatten(Tail(ss))

\* str(path)
Str(path) ==
    IF path = <<>> THEN <<"/">>
    ELSE Flatten([k \in 1..Len(path) |-> <<"/">> \o path[k]])

\* str.startswith
startswith(s, prefix) ==
    Len(prefix) <= Len(s) /\ SubSeq(s, 1, Len(prefix)) = prefix

IsPrefix(p, q) == Len(p) <= Len(q) /\ SubSeq(q, 1, Len(p)) = p

Parent(p) == IF p = <<>> THEN <<>> ELSE SubSeq(p, 1, Len(p) - 1)

(***************************************************************************)
(* The directory tree: fs maps the location of every existing entry to its *)
(* node. The operating system resolves a path name by name, ".." included. *)
(***************************************************************************)
DirNode == [kind |-> "dir", data |-> <<>>]
FileNode(d) == [kind |-> "file", data |-> d]

IsDirAt(f, loc) == loc \in DOMAIN f /\ f[loc].kind = "dir"
IsFileAt(f, loc) == loc \in DOMAIN f /\ f[loc].kind = "file"

RECURSIVE Walk(_, _, _)
Walk(f, cur, rest) ==
    IF rest = <<>> THEN [ok |-> TRUE, at |-> cur]
    ELSE IF ~IsDirAt(f, cur) THEN [ok |-> FALSE, at |-> cur]
    ELSE IF Head(rest) = DotDot THEN Walk(f, Parent(cur), Tail(rest))
    ELSE Walk(f, Append(cur, Head(rest)), Tail(rest))

\* the location a path designates, when every directory on the way exists
Resolve(f, path) == Walk(f, <<>>, path)

\* Path.exists, Path.is_dir, Path.is_file
exists(f, path) == LET r == Resolve(f, path) IN r.ok /\ r.at \in DOMAIN f
is_dir(f, path) == LET r == Resolve(f, path) IN r.ok /\ IsDirAt(f, r.at)
is_file(f, path) == LET r == Resolve(f, path) IN r.ok /\ IsFileAt(f, r.at)

\* a new entry can be made at path: its parent directory exists
CanCreate(f, path) ==
    LET r == Resolve(f, path) IN r.ok /\ r.at # <<>> /\ IsDirAt(f, Parent(r.at))

Put(f, loc, node) == [l \in DOMAIN f \cup {loc} |-> IF l = loc THEN node ELSE f[l]]

\* the tree without loc and everything below it
Remove(f, loc) == [l \in {x \in DOMAIN f : ~IsPrefix(loc, x)} |-> f[l]]

\* the tree with the subtree at src moved to dst
Relocate(f, src, dst) ==
    LET moved == {x \in DOMAIN f : IsPrefix(src, x)}
        to(x) == dst \o SubSeq(x, Len(src) + 1, Len(x))
        kept == {x \in DOMAIN f : ~IsPrefix(src, x) /\ ~IsPrefix(dst, x)}
    IN  [l \in kept \cup {to(x) : x \in moved} |->
            IF l \in kept THEN f[l]
            ELSE f[CHOOSE x \in moved : to(x) = l]]

\* the bytes of a file after a write of data at offset off (a gap reads as holes)
HoleByte == 0 - 1
WriteAt(old, off, data) ==
    LET n == IF Len(old) > off + Len(data) THEN Len(old) ELSE off + Len(data)
    IN  [k \in 1..n |->
            IF k > off /\ k <= off + Len(data) THEN data[k - off]
            ELSE IF k <= Len(old) THEN old[k] ELSE HoleByte]

(***************************************************************************)
(* Filesystem calls. Each returns [ok, fs]: ok is FALSE when the call      *)
(* raises OSError, and then the tree is unchanged.                         *)
(***************************************************************************)
\* Path.mkdir(exist_ok=True)
mkdir_exist_ok(f, path) ==
    IF is_dir(f, path) THEN [ok |-> TRUE, fs |-> f]
    ELSE IF CanCreate(f, path) /\ ~exists(f, path)
    THEN [ok |-> TRUE, fs |-> Put(f, Resolve(f, path).at, DirNode)]
    ELSE [ok |-> FALSE, fs |-> f]

\* a mkdir that accepts a name that is a directory already
mkdir_over(f, path) ==
    IF is_dir(f, path) THEN [ok |-> TRUE, fs |-> f]
    ELSE IF CanCreate(f, path) /\ ~exists(f, path)
    THEN [ok |-> TRUE, fs |-> Put(f, Resolve(f, path).at, DirNode)]
    ELSE [ok |-> FALSE, fs |-> f]

\* Path.mkdir()
mkdir(f, path) ==
    IF CanCreate(f, path) /\ ~exists(f, path)
    THEN [ok |-> TRUE, fs |-> Put(f, Resolve(f, path).at, DirNode)]
    ELSE [ok |-> FALSE, fs |-> f]

\* an open that refuses a name that exists
open_xb(f, path) ==
    IF CanCreate(f, path) /\ ~exists(f, path)
    THEN [ok |-> TRUE, fs |-> Put(f, Resolve(f, path).at, FileNode(<<>>))]
    ELSE [ok |-> FALSE, fs |-> f]

\* open(path, 'wb'): creates the file or truncates it
open_wb(f, path) ==
    IF CanCreate(f, path) /\ ~is_dir(f, path)
    THEN [ok |-> TRUE, fs |-> Put(f, Resolve(f, path).at, FileNode(<<>>))]
    ELSE [ok |-> FALSE, fs |-> f]

\* Path.unlink()
unlink(f, path) ==
    IF is_file(f, path)
    THEN [ok |-> TRUE, fs |-> Remove(f, Resolve(f, path).at)]
    ELSE [ok |-> FALSE, fs |-> f]

\* shutil.rmtree(path): of the root of the tree everything below goes and the
\* last rmdir fails
rmtree(f, path) ==
    IF ~is_dir(f, path) THEN [ok |-> FALSE, fs |-> f]
    ELSE IF Resolve(f, path).at = <<>>
    THEN [ok |-> FALSE, fs |-> [l \in {<<>>} |-> f[l]]]
    ELSE [ok |-> TRUE, fs |-> Remove(f, Resolve(f, path).at)]

\* Path.rename(target), os.rename: a file replaces an existing file, a
\* directory replaces an existing empty directory, and nothing moves below
\* itself
IsEmptyDirAt(f, loc) ==
    IsDirAt(f, loc) /\ \A x \in DOMAIN f : IsPrefix(loc, x) => x = loc

os_rename(f, src, dst) ==
    LET s == Resolve(f, src)
        d == Resolve(f, dst)
    IN  IF ~exists(f, src) \/ ~CanCreate(f, dst) \/ s.at = <<>>
        THEN [ok |-> FALSE, fs |-> f]
        ELSE IF s.at = d.at THEN [ok |-> TRUE, fs |-> f]
        ELSE IF IsPrefix(s.at, d.at) \/ IsPrefix(d.at, s.at)
        THEN [ok |-> FALSE, fs |-> f]
        ELSE IF exists(f, dst) /\ ~(IsFileAt(f, s.at) /\ IsFileAt(f, d.at))
                            /\ ~(IsDirAt(f, s.at) /\ IsEmptyDirAt(f, d.at))
        THEN [ok |-> FALSE, fs |-> f]
        ELSE [ok |-> TRUE, fs |-> Relocate(f, s.at, d.at)]

(***************************************************************************)
(* Open files. A handler's descriptor names the file it was opened on and  *)
(* follows that file when it is renamed; once the file is unlinked the     *)
(* descriptor is detached and a write through it reaches no name.          *)
(***************************************************************************)
NoFd == [live |-> FALSE, at |-> <<>>, off |-> 0]
FdAt(loc) == [live |-> TRUE, at |-> loc, off |-> 0]

\* the descriptors after the tree f became the tree g by the move src -> dst
\* (src = dst = <<>> when nothing moved): a descriptor whose file left the tree
\* is detached
FdFollow(cs, g, src, dst) ==
    [c \in DOMAIN cs |->
        LET fd == cs[c].fd
            at == IF src # dst /\ src # <<>> /\ IsPrefix(src, fd.at)
                  THEN dst \o SubSeq(fd.at, Len(src) + 1, Len(fd.at))
                  ELSE IF src # dst /\ src # <<>> /\ IsPrefix(dst, fd.at)
                  THEN <<>>
                  ELSE fd.at
        IN  IF fd.live /\ IsFileAt(g, at)
            THEN [cs[c] EXCEPT !.fd = [fd EXCEPT !.at = at]]
            ELSE [cs[c] EXCEPT !.fd = NoFd]]

\* the tree after a write through fd
fd_write(f, fd, data) ==
    IF fd.live /\ IsFileAt(f, fd.at)
    THEN Put(f, fd.at, FileNode(WriteAt(f[fd.at].data, fd.off, data)))
    ELSE f

(***************************************************************************)
(* FileSystemError (app.py 52-59) and FileSystem.validate_path.            *)
(***************************************************************************)
StatusOf(code) ==
    CASE code = "VOLUME_NOT_MOUNTED" -> 400
      [] code = "PATH_NOT_FOUND" -> 404
      [] code = "ACCESS_DENIED" -> 403
      [] code = "DIRECTORY_NOT_FOUND" -> 404
      [] code = "NO_FILE_UPLOADED" -> 400
      [] code = "ITEM_EXISTS" -> 400
      [] code = "OK" -> 200
      [] OTHER -> 500

\* a validation that looks at the path string before it looks for the path
validate_path_swapped(f, base, path, require_dir) ==
    IF ~exists(f, base) THEN "VOLUME_NOT_MOUNTED"
    ELSE IF ~startswith(Str(path), Str(base)) THEN "ACCESS_DENIED"
    ELSE IF ~exists(f, path) THEN "PATH_NOT_FOUND"
    ELSE IF require_dir /\ ~is_dir(f, path) THEN "DIRECTORY_NOT_FOUND"
    ELSE "OK"

validate_path(f, base, path, require_dir) ==
    IF ~exists(f, base) THEN "VOLUME_NOT_MOUNTED"
    ELSE IF ~exists(f, path) THEN "PATH_NOT_FOUND"
    ELSE IF ~startswith(Str(path), Str(base)) THEN "ACCESS_DENIED"
    ELSE IF require_dir /\ ~is_dir(f, path) THEN "DIRECTORY_NOT_FOUND"
    ELSE "OK"

(***************************************************************************)
(* Requests. calls[c] is the handler running in slot c; a finished request *)
(* leaves its result in hist and frees its slot.                           *)
(***************************************************************************)
Slots == 1..MaxCalls

Idle ==
    [pc |-> "idle", op |-> "none", dir |-> <<>>, fname |-> Rel(<<>>),
     idx |-> 0, total |-> 0, data |-> <<>>, fd |-> NoFd, i |-> 0,
     buf |-> <<>>, complete |-> FALSE, why |-> "", alone |-> TRUE,
     before |-> [there |-> FALSE, data |-> <<>>],
     temp0 |-> [there |-> FALSE, data |-> <<>>], parts0 |-> {},
     partdata0 |-> <<>>, valid |-> FALSE, append |-> FALSE, offset |-> 0]

InFlight == {c \in Slots : calls[c].pc # "idle"}

CanDeliver == Len(hist) + Cardinality(InFlight) < MaxDeliveries

\* whether a filesystem call of this step fails; budget is the number of
\* failures still to come
FaultChoices == IF budget > 0 THEN {FALSE, TRUE} ELSE {FALSE}

\* what a name of the tree holds
Content(f, path) ==
    IF is_file(f, path)
    THEN [there |-> TRUE, data |-> f[Resolve(f, path).at].data]
    ELSE [there |-> exists(f, path), data |-> <<>>]

\* the bytes of chunk chunk_index of the uploaded file
ChunkData(i) == <<i>>

\* the bytes of a file that is there before the upload
OldData == <<0 - 2>>

\* the session of a request and its paths (app.py 214-236)
chunks_dir(path) == Join(path, Rel(<<<<".chunks">>>>))
file_chunks_dir(path, filename) == Join(chunks_dir(path), filename)
part_path(path, filename, i) ==
    Join(file_chunks_dir(path, filename), Rel(<<IntStr(i) \o <<".part">>>>))
file_path(path, filename) == Join(path, filename)
temp_path(path, filename) == with_suffix(file_path(path, filename), ".tmp")

SessionKey(cl) == <<cl.dir, cl.fname>>

Count(r, key) == IF key \in DOMAIN r THEN r[key] ELSE 0

\* every part-file of the session is in its scratch directory
AllParts(f, path, filename, total) ==
    \A i \in 0..(total - 1) : is_file(f, part_path(path, filename, i))

\* what the part-files of the session hold, by chunk index
PartData(f, path, filename, total) ==
    [i \in 0..(total - 1) |-> Content(f, part_path(path, filename, i))]

\* the indices below total whose part-file is in the scratch directory
Parts(f, path, filename, total) ==
    {i \in 0..(total - 1) : is_file(f, part_path(path, filename, i))}

\* the result of a request that finished leaving the tree g: what it returned
\* (res, the code and status of its error), and for the properties whether it ran
\* alone, whether every part-file was there when it met the last index, why
\* its reassembly stopped, what the destination and the temporary name held
\* when it began, which
\* part-files were there when it began, whether its arguments passed the
\* validation, whether its last step left the tree as it was, and what the
\* destination, the temporary name and the scratch directory hold after it
Result(cs, c, res, code, g) ==
    [op |-> cs[c].op, dir |-> cs[c].dir, fname |-> cs[c].fname,
     idx |-> cs[c].idx, total |-> cs[c].total, res |-> res, code |-> code,
     status |-> StatusOf(code), alone |-> cs[c].alone,
     complete |-> cs[c].complete, why |-> cs[c].why,
     before |-> cs[c].before, temp0 |-> cs[c].temp0, parts0 |-> cs[c].parts0,
     valid |-> cs[c].valid, kept |-> (g = fs),
     data |-> cs[c].data, partdata0 |-> cs[c].partdata0,
     partdata |-> PartData(g, cs[c].dir, cs[c].fname, cs[c].total),
     dest |-> Content(g, file_path(cs[c].dir, cs[c].fname)),
     temp |-> Content(g, temp_path(cs[c].dir, cs[c].fname)),
     parts |-> Parts(g, cs[c].dir, cs[c].fname, cs[c].total)]

\* a request starts while another is in flight: neither of them ran alone
Started(cs, c, rec) ==
    [d \in Slots |->
        IF d = c THEN [rec EXCEPT !.alone = (InFlight = {})]
        ELSE [cs[d] EXCEPT !.alone = (cs[d].pc = "idle")]]

(***************************************************************************)
(* FileSystem.upload_chunk (app.py 207-268), one action per stretch of     *)
(* code between two await points.                                          *)
(***************************************************************************)
\* 210-221: validate_path, then the scratch directories are made
upload_chunk_begin(c, filename, chunk_index, total_chunks, chunk_data, path) ==
    /\ calls[c].pc = "idle"
    /\ \A d \in Slots : d < c => calls[d].pc # "idle"
    /\ CanDeliver
    /\ \E fail \in FaultChoices :
       LET v == validate_path(fs, base_dir, path, TRUE)
           rec == [Idle EXCEPT !.op = "upload_chunk", !.dir = path,
                       !.fname = filename, !.idx = chunk_index,
                       !.total = total_chunks, !.data = chunk_data,
                       !.before = Content(fs, file_path(path, filename)),
                       !.temp0 = Content(fs, temp_path(path, filename)),
                       !.parts0 = Parts(fs, path, filename, total_chunks),
                       !.partdata0 = PartData(fs, path, filename, total_chunks),
                       !.valid = (v = "OK")]
           cs == Started(calls, c, rec)
           m1 == IF exists(fs, chunks_dir(path)) THEN [ok |-> TRUE, fs |-> fs]
                 ELSE IF fail THEN [ok |-> FALSE, fs |-> fs]
                 ELSE mkdir_exist_ok(fs, chunks_dir(path))
           m2 == IF exists(m1.fs, file_chunks_dir(path, filename))
                 THEN [ok |-> TRUE, fs |-> m1.fs]
                 ELSE IF fail THEN [ok |-> FALSE, fs |-> m1.fs]
                 ELSE mkdir_exist_ok(m1.fs, file_chunks_dir(path, filename))
       IN  /\ fail => (v = "OK" /\ ~exists(fs, file_chunks_dir(path, filename)))
           /\ budget' = IF fail THEN budget - 1 ELSE budget
           /\ overlap' = (overlap \/ InFlight # {})
           /\ IF v # "OK"
              THEN /\ hist' = Append(hist, Result(cs, c, "error", v, fs))
                   /\ calls' = [cs EXCEPT ![c] = Idle]
                   /\ UNCHANGED <<fs, touched>>
              ELSE IF ~m1.ok \/ ~m2.ok
              THEN /\ hist' = Append(hist, Result([cs EXCEPT ![c].why = "mkdir"], c,
                                                  "error", "OSError", m1.fs))
                   /\ calls' = [cs EXCEPT ![c] = Idle]
                   /\ fs' = m1.fs
                   /\ touched' = touched \cup
                         (IF m1.fs # fs THEN {chunks_dir(path)} ELSE {})
              ELSE /\ calls' = [cs EXCEPT ![c].pc = "part_open"]
                   /\ fs' = m2.fs
                   /\ touched' = touched
                         \cup (IF m1.fs # fs THEN {chunks_dir(path)} ELSE {})
                         \cup (IF m2.fs # m1.fs
                               THEN {file_chunks_dir(path, filename)} ELSE {})
                   /\ UNCHANGED hist
    /\ UNCHANGED <<base_dir, upload_dir, reasm, fs0, file_chunks>>

\* 266-268: the outer handler turns every exception into ACCESS_DENIED
chunk_failed(cs, c, g) ==
    /\ hist' = Append(hist, Result(cs, c, "error", "ACCESS_DENIED", g))
    /\ calls' = [cs EXCEPT ![c] = Idle]

\* 226: aiofiles.open(chunk_file, 'wb')
upload_chunk_part_open(c) ==
    /\ calls[c].pc = "part_open"
    /\ \E fail \in FaultChoices :
        LET cl == calls[c]
            p == part_path(cl.dir, cl.fname, cl.idx)
            o == IF fail THEN [ok |-> FALSE, fs |-> fs] ELSE open_wb(fs, p)
        IN  /\ budget' = IF fail THEN budget - 1 ELSE budget
            /\ fs' = o.fs
            /\ IF o.ok
               THEN /\ calls' = [calls EXCEPT ![c].pc = "part_write",
                                     ![c].fd = FdAt(Resolve(fs, p).at)]
                    /\ touched' = touched \cup {p}
                    /\ UNCHANGED hist
               ELSE /\ chunk_failed(calls, c, fs)
                    /\ UNCHANGED touched
    /\ UNCHANGED <<base_dir, upload_dir, reasm, overlap, fs0, file_chunks>>

\* 227: out_file.write(chunk_data), and the file is closed
upload_chunk_part_write(c) ==
    /\ calls[c].pc = "part_write"
    /\ \E fail \in FaultChoices :
        LET cl == calls[c] IN
        /\ budget' = IF fail THEN budget - 1 ELSE budget
        /\ IF fail
           THEN /\ chunk_failed(calls, c, fs)
                /\ UNCHANGED fs
           ELSE /\ fs' = fd_write(fs, cl.fd, cl.data)
                /\ calls' = [calls EXCEPT ![c].pc = "trigger", ![c].fd = NoFd]
                /\ UNCHANGED hist
    /\ UNCHANGED <<base_dir, upload_dir, reasm, overlap, touched, fs0, file_chunks>>

\* 230: the chunk that sets off the reassembly
is_last_chunk(chunk_index, total_chunks) == chunk_index = total_chunks - 1

\* a check of the destination that never finds it
destination_exists_never(f, path, filename) == FALSE

\* 233: the destination name is taken
destination_exists(f, path, filename) == exists(f, file_path(path, filename))

\* 242: the part-file of index i is in the scratch directory
chunk_exists(f, path, filename, i) == exists(f, part_path(path, filename, i))

\* a handler that leaves the temporary file
remove_temp_skipped(f, t) == [ok |-> TRUE, fs |-> f]

\* 260-261: the handler of the reassembly unlinks the temporary file
remove_temp(f, t) == IF exists(f, t) THEN unlink(f, t) ELSE [ok |-> TRUE, fs |-> f]

\* 230-236, 264-265: the last index starts the reassembly unless the
\* destination exists; any other index is acknowledged
upload_chunk_trigger(c) ==
    /\ calls[c].pc = "trigger"
    /\ LET cl == calls[c]
           cs == [calls EXCEPT ![c].complete =
                                  AllParts(fs, cl.dir, cl.fname, cl.total)]
       IN
       IF ~is_last_chunk(cl.idx, cl.total)
       THEN /\ hist' = Append(hist, Result(cs, c, "chunk_received", "OK", fs))
            /\ calls' = [calls EXCEPT ![c] = Idle]
            /\ UNCHANGED reasm
       ELSE IF destination_exists(fs, cl.dir, cl.fname)
       THEN /\ hist' = Append(hist, Result([cs EXCEPT ![c].why = "exists"], c,
                                           "error", "ACCESS_DENIED", fs))
            /\ calls' = [calls EXCEPT ![c] = Idle]
            /\ UNCHANGED reasm
       ELSE /\ calls' = [cs EXCEPT ![c].pc = "temp_open"]
            /\ reasm' = [k \in DOMAIN reasm \cup {SessionKey(cl)} |->
                            IF k = SessionKey(cl) THEN Count(reasm, k) + 1
                            ELSE reasm[k]]
            /\ UNCHANGED hist
    /\ UNCHANGED <<fs, base_dir, upload_dir, overlap, budget, touched, fs0, file_chunks>>

\* 239: aiofiles.open(temp_path, 'wb')
upload_chunk_temp_open(c) ==
    /\ calls[c].pc = "temp_open"
    /\ \E fail \in FaultChoices :
        LET cl == calls[c]
            t == temp_path(cl.dir, cl.fname)
            o == IF fail THEN [ok |-> FALSE, fs |-> fs] ELSE open_wb(fs, t)
        IN  /\ budget' = IF fail THEN budget - 1 ELSE budget
            /\ fs' = o.fs
            /\ IF o.ok
               THEN /\ calls' = [calls EXCEPT ![c].pc = "loop", ![c].i = 0,
                                     ![c].fd = FdAt(Resolve(fs, t).at)]
                    /\ touched' = touched \cup {t}
               ELSE /\ calls' = [calls EXCEPT ![c].pc = "cleanup",
                                     ![c].why = "open"]
                    /\ UNCHANGED touched
    /\ UNCHANGED <<base_dir, upload_dir, hist, reasm, overlap, fs0, file_chunks>>

\* 240-243: the next index of the loop; a missing part-file raises
upload_chunk_loop(c) ==
    /\ calls[c].pc = "loop"
    /\ calls[c].i < calls[c].total
    /\ LET cl == calls[c] IN
       IF chunk_exists(fs, cl.dir, cl.fname, cl.i)
       THEN calls' = [calls EXCEPT ![c].pc = "read"]
       ELSE calls' = [calls EXCEPT ![c].pc = "cleanup", ![c].fd = NoFd,
                          ![c].buf = <<>>, ![c].why = "missing"]
    /\ UNCHANGED <<fs, base_dir, upload_dir, hist, reasm, overlap, budget, touched, fs0, file_chunks>>

\* 245-246: the part-file is opened and read
upload_chunk_read(c) ==
    /\ calls[c].pc = "read"
    /\ \E fail \in FaultChoices :
        LET cl == calls[c]
            p == part_path(cl.dir, cl.fname, cl.i)
        IN  /\ budget' = IF fail THEN budget - 1 ELSE budget
            /\ IF ~fail /\ is_file(fs, p)
               THEN calls' = [calls EXCEPT ![c].pc = "temp_write",
                                  ![c].buf = fs[Resolve(fs, p).at].data]
               ELSE calls' = [calls EXCEPT ![c].pc = "cleanup", ![c].fd = NoFd,
                                  ![c].buf = <<>>, ![c].why = "read"]
    /\ UNCHANGED <<fs, base_dir, upload_dir, hist, reasm, overlap, touched, fs0, file_chunks>>

\* 247: out_file.write(chunk_content)
upload_chunk_temp_write(c) ==
    /\ calls[c].pc = "temp_write"
    /\ \E fail \in FaultChoices :
        LET cl == calls[c] IN
        /\ budget' = IF fail THEN budget - 1 ELSE budget
        /\ IF fail
           THEN /\ calls' = [calls EXCEPT ![c].pc = "cleanup", ![c].fd = NoFd,
                                 ![c].buf = <<>>, ![c].why = "write"]
                /\ UNCHANGED fs
           ELSE /\ fs' = fd_write(fs, cl.fd, cl.buf)
                /\ calls' = [calls EXCEPT ![c].pc = "loop", ![c].i = cl.i + 1,
                                 ![c].buf = <<>>,
                                 ![c].fd.off = cl.fd.off + Len(cl.buf)]
    /\ UNCHANGED <<base_dir, upload_dir, hist, reasm, overlap, touched, fs0, file_chunks>>

\* 259-262: the handler of the reassembly removes the temporary file
upload_chunk_cleanup(c) ==
    /\ calls[c].pc = "cleanup"
    /\ LET cl == calls[c]
           t == temp_path(cl.dir, cl.fname)
           u == remove_temp(fs, t)
           cs == FdFollow(calls, u.fs, <<>>, <<>>)
       IN  /\ fs' = u.fs
           /\ touched' = touched \cup (IF u.fs # fs THEN {t} ELSE {})
           /\ chunk_failed(cs, c, u.fs)
    /\ UNCHANGED <<base_dir, upload_dir, reasm, overlap, budget, fs0, file_chunks>>

\* 250-262: the temporary file is closed and renamed, the scratch directory
\* removed and the size read; a failure of one of them runs the handler
upload_chunk_finish(c) ==
    /\ calls[c].pc = "loop"
    /\ calls[c].i = calls[c].total
    /\ \E fail \in (IF budget > 0
                    THEN {"none", "rename", "rmtree", "getsize"} ELSE {"none"}) :
        LET cl == calls[c]
            t == temp_path(cl.dir, cl.fname)
            d == file_path(cl.dir, cl.fname)
            s == file_chunks_dir(cl.dir, cl.fname)
            r1 == IF fail = "rename" THEN [ok |-> FALSE, fs |-> fs]
                  ELSE os_rename(fs, t, d)
            r2 == IF ~r1.ok \/ fail = "rmtree" THEN [ok |-> FALSE, fs |-> r1.fs]
                  ELSE rmtree(r1.fs, s)
            ok == r1.ok /\ r2.ok /\ fail # "getsize" /\ exists(r2.fs, d)
            u == IF ~ok THEN remove_temp(r2.fs, t) ELSE [ok |-> TRUE, fs |-> r2.fs]
            cs1 == IF r1.ok /\ r1.fs # fs
                   THEN FdFollow(calls, r1.fs, Resolve(fs, t).at, Resolve(fs, d).at)
                   ELSE calls
            cs == FdFollow(cs1, u.fs, <<>>, <<>>)
        IN  /\ budget' = IF fail # "none" THEN budget - 1 ELSE budget
            /\ fs' = u.fs
            /\ touched' = touched
                  \cup (IF r1.ok THEN {d} ELSE {})
                  \cup (IF r2.ok THEN {s} ELSE {})
                  \cup (IF u.fs # r2.fs THEN {t} ELSE {})
            /\ reasm' = IF r2.ok
                        THEN [k \in DOMAIN reasm \ {SessionKey(cl)} |-> reasm[k]]
                        ELSE reasm
            /\ IF ok
               THEN /\ hist' = Append(hist, Result(cs, c, "complete", "OK", u.fs))
                    /\ calls' = [cs EXCEPT ![c] = Idle]
               ELSE chunk_failed([cs EXCEPT ![c].why = IF ~r1.ok THEN "rename" ELSE IF ~r2.ok THEN "rmtree" ELSE "getsize"], c, u.fs)
    /\ UNCHANGED <<base_dir, upload_dir, overlap, fs0, file_chunks>>

(***************************************************************************)
(* FileSystem.upload (app.py 176-205), one action per stretch of code       *)
(* between two await points.                                                *)
(***************************************************************************)
\* a check of the new name that never finds it
item_exists_never(f, new_path) == FALSE

\* 187, 304, 323: the name an item is to get is taken
item_exists(f, new_path) == exists(f, new_path)

\* the bytes of an uploaded file
FileData == <<7, 8>>

\* 180-191: validate_path, then the destination must be free
upload_begin(c, filename, path) ==
    /\ calls[c].pc = "idle"
    /\ \A d \in Slots : d < c => calls[d].pc # "idle"
    /\ CanDeliver
    /\ LET v == validate_path(fs, base_dir, path, TRUE)
           rec == [Idle EXCEPT !.op = "upload", !.dir = path,
                       !.fname = filename, !.data = FileData,
                       !.before = Content(fs, file_path(path, filename)),
                       !.temp0 = Content(fs, temp_path(path, filename)),
                       !.valid = (v = "OK")]
           cs == Started(calls, c, rec)
       IN  /\ overlap' = (overlap \/ InFlight # {})
           /\ IF v # "OK"
              THEN /\ hist' = Append(hist, Result(cs, c, "error", v, fs))
                   /\ calls' = [cs EXCEPT ![c] = Idle]
              ELSE IF item_exists(fs, file_path(path, filename))
              THEN /\ hist' = Append(hist, Result(cs, c, "error", "ITEM_EXISTS", fs))
                   /\ calls' = [cs EXCEPT ![c] = Idle]
              ELSE /\ calls' = [cs EXCEPT ![c].pc = "u_open"]
                   /\ UNCHANGED hist
    /\ UNCHANGED <<fs, base_dir, upload_dir, reasm, budget, touched, fs0, file_chunks>>

\* 193: aiofiles.open(temp_path, 'wb')
upload_open(c) ==
    /\ calls[c].pc = "u_open"
    /\ \E fail \in FaultChoices :
        LET cl == calls[c]
            t == temp_path(cl.dir, cl.fname)
            o == IF fail THEN [ok |-> FALSE, fs |-> fs] ELSE open_wb(fs, t)
        IN  /\ budget' = IF fail THEN budget - 1 ELSE budget
            /\ fs' = o.fs
            /\ IF o.ok
               THEN /\ calls' = [calls EXCEPT ![c].pc = "u_write",
                                     ![c].fd = FdAt(Resolve(fs, t).at)]
                    /\ touched' = touched \cup {t}
               ELSE /\ calls' = [calls EXCEPT ![c].pc = "u_cleanup",
                                     ![c].why = "open"]
                    /\ UNCHANGED touched
    /\ UNCHANGED <<base_dir, upload_dir, hist, reasm, overlap, fs0, file_chunks>>

\* 194-195: file.read(), out_file.write(content)
upload_write(c) ==
    /\ calls[c].pc = "u_write"
    /\ \E fail \in FaultChoices :
        LET cl == calls[c] IN
        /\ budget' = IF fail THEN budget - 1 ELSE budget
        /\ IF fail
           THEN /\ calls' = [calls EXCEPT ![c].pc = "u_cleanup", ![c].fd = NoFd,
                                 ![c].why = "write"]
                /\ UNCHANGED fs
           ELSE /\ fs' = fd_write(fs, cl.fd, cl.data)
                /\ calls' = [calls EXCEPT ![c].pc = "u_rename", ![c].fd = NoFd]
    /\ UNCHANGED <<base_dir, upload_dir, hist, reasm, overlap, touched, fs0, file_chunks>>

\* 200-205: the handler unlinks the temporary file and raises ACCESS_DENIED
\* (an unlink that fails leaves the handler with its own exception)
upload_failed(cs, c, g, unlinked) ==
    /\ hist' = Append(hist, Result(cs, c, "error",
                         IF unlinked THEN "ACCESS_DENIED" ELSE "OSError", g))
    /\ calls' = [cs EXCEPT ![c] = Idle]

upload_cleanup(c) ==
    /\ calls[c].pc = "u_cleanup"
    /\ LET cl == calls[c]
           t == temp_path(cl.dir, cl.fname)
           u == remove_temp(fs, t)
           cs == FdFollow(calls, u.fs, <<>>, <<>>)
       IN  /\ fs' = u.fs
           /\ touched' = touched \cup (IF u.fs # fs THEN {t} ELSE {})
           /\ upload_failed(cs, c, u.fs, u.ok)
    /\ UNCHANGED <<base_dir, upload_dir, reasm, overlap, budget, fs0, file_chunks>>

\* 196-198: the temporary file is renamed to the destination and the size
\* read; a failure of one of them runs the handler
upload_rename(c) ==
    /\ calls[c].pc = "u_rename"
    /\ \E fail \in (IF budget > 0 THEN {"none", "rename", "getsize"} ELSE {"none"}) :
        LET cl == calls[c]
            t == temp_path(cl.dir, cl.fname)
            d == file_path(cl.dir, cl.fname)
            r == IF fail = "rename" THEN [ok |-> FALSE, fs |-> fs]
                 ELSE os_rename(fs, t, d)
            ok == r.ok /\ fail # "getsize" /\ exists(r.fs, d)
            u == IF ~ok THEN remove_temp(r.fs, t) ELSE [ok |-> TRUE, fs |-> r.fs]
            cs1 == IF r.ok /\ r.fs # fs
                   THEN FdFollow(calls, r.fs, Resolve(fs, t).at, Resolve(fs, d).at)
                   ELSE calls
            cs == FdFollow(cs1, u.fs, <<>>, <<>>)
        IN  /\ budget' = IF fail # "none" THEN budget - 1 ELSE budget
            /\ fs' = u.fs
            /\ touched' = touched
                  \cup (IF r.ok THEN {d} ELSE {})
                  \cup (IF u.fs # r.fs THEN {t} ELSE {})
            /\ IF ok
               THEN /\ hist' = Append(hist, Result(cs, c, "done", "OK", u.fs))
                    /\ calls' = [cs EXCEPT ![c] = Idle]
               ELSE upload_failed([cs EXCEPT ![c].why = IF ~r.ok THEN "rename" ELSE "getsize"], c, u.fs, u.ok)
    /\ UNCHANGED <<base_dir, upload_dir, reasm, overlap, fs0, file_chunks>>

(***************************************************************************)
(* FileSystem.file_operation (app.py 291-336): rename, delete and move.    *)
(* The handlers are synchronous: one request is one step.                  *)
(***************************************************************************)
\* os.path.basename of str(path)
basename(path) == IF path = <<>> THEN <<>> ELSE <<path[Len(path)]>>

\* shutil.move(src, dst) with dst an existing directory: the item is renamed
\* to dst/basename(src), unless that exists or lies inside the item
shutil_move(f, src, dst) ==
    LET real_dst == dst \o basename(src)
    IN  IF ~is_dir(f, dst) THEN os_rename(f, src, dst)
        ELSE IF basename(src) = <<>> \/ basename(src) = <<DotDot>>
        THEN [ok |-> FALSE, fs |-> f]
        ELSE IF exists(f, real_dst) THEN [ok |-> FALSE, fs |-> f]
        ELSE os_rename(f, src, real_dst)

\* the outcome of file_operation on the tree f: the code of its error
\* ("OK" when it returns), the tree it leaves, the path it acted on, the
\* move it made (src, dst: locations), and whether the arguments passed the
\* validation
OpOutcome(code, g, target, src, dst, valid) ==
    [code |-> code, fs |-> g, target |-> target, src |-> src, dst |-> dst,
     valid |-> valid]

\* 300-308
file_operation_rename(f, source_path, item_path, new_name) ==
    LET new_path == Join(source_path, new_name)
        r == os_rename(f, item_path, new_path)
    IN  IF new_name.segs = <<>> /\ ~new_name.abs
        THEN OpOutcome("ACCESS_DENIED", f, <<>>, <<>>, <<>>, FALSE)
        ELSE IF item_exists(f, new_path)
        THEN OpOutcome("ITEM_EXISTS", f, <<>>, <<>>, <<>>, TRUE)
        ELSE IF ~r.ok THEN OpOutcome("ACCESS_DENIED", f, <<>>, <<>>, <<>>, TRUE)
        ELSE OpOutcome("OK", r.fs, new_path,
                       Resolve(f, item_path).at, Resolve(f, new_path).at, TRUE)

\* 310-316: unlink(missing_ok=True), rmtree(ignore_errors=True)
file_operation_delete(f, item_path) ==
    IF is_file(f, item_path)
    THEN OpOutcome("OK", unlink(f, item_path).fs, item_path, <<>>, <<>>, TRUE)
    ELSE OpOutcome("OK", rmtree(f, item_path).fs, item_path, <<>>, <<>>, TRUE)

\* a move that does not validate its destination
file_operation_move_unchecked(f, base, item_path, item_name, destination_path) ==
    LET r == shutil_move(f, item_path, destination_path)
    IN  IF ~r.ok THEN OpOutcome("ACCESS_DENIED", f, <<>>, <<>>, <<>>, TRUE)
        ELSE OpOutcome("OK", r.fs, destination_path, <<>>, <<>>, TRUE)

\* 318-327
file_operation_move(f, base, item_path, item_name, destination_path) ==
    LET v == validate_path(f, base, destination_path, TRUE)
        dest_item_path == Join(destination_path, item_name)
        r == shutil_move(f, item_path, destination_path)
        real_dst == destination_path \o basename(item_path)
    IN  IF v # "OK" THEN OpOutcome(v, f, <<>>, <<>>, <<>>, FALSE)
        ELSE IF item_exists(f, dest_item_path)
        THEN OpOutcome("ITEM_EXISTS", f, <<>>, <<>>, <<>>, TRUE)
        ELSE IF ~r.ok THEN OpOutcome("ACCESS_DENIED", f, <<>>, <<>>, <<>>, TRUE)
        ELSE OpOutcome("OK", r.fs, real_dst,
                       Resolve(f, item_path).at, Resolve(f, real_dst).at, TRUE)

\* 291-336
file_operation_outcome(f, base, operation, source_path, item_name, destination_path, new_name) ==
    LET v1 == validate_path(f, base, source_path, TRUE)
        item_path == Join(source_path, item_name)
        v2 == validate_path(f, base, item_path, FALSE)
    IN  IF v1 # "OK" THEN OpOutcome(v1, f, <<>>, <<>>, <<>>, FALSE)
        ELSE IF v2 # "OK" THEN OpOutcome(v2, f, <<>>, <<>>, <<>>, FALSE)
        ELSE IF operation = "rename"
        THEN file_operation_rename(f, source_path, item_path, new_name)
        ELSE IF operation = "delete"
        THEN file_operation_delete(f, item_path)
        ELSE IF operation = "move"
        THEN file_operation_move(f, base, item_path, item_name, destination_path)
        ELSE OpOutcome("ACCESS_DENIED", f, <<>>, <<>>, <<>>, FALSE)

\* the path of the name the item is to get: new_name in its directory for a
\* rename, its own name in the destination for a move; for a delete the item
item_target(operation, source_path, item_name, destination_path, new_name) ==
    IF operation = "rename" THEN Join(source_path, new_name)
    ELSE IF operation = "move" THEN Join(destination_path, item_name)
    ELSE Join(source_path, item_name)

\* one request of rename, delete or move, as the routes call it (546-593);
\* in its result fname is the item, new the new name, to the destination
\* directory, before and dest what the name the item is to get held before
\* and holds after, item0 and item what the item's own name held and holds
file_operation(operation, source_path, item_name, destination_path, new_name) ==
    /\ CanDeliver
    /\ LET o == file_operation_outcome(fs, base_dir, operation, source_path,
                                       item_name, destination_path, new_name)
           cs == [d \in Slots |-> [calls[d] EXCEPT !.alone = (calls[d].pc = "idle")]]
           t == item_target(operation, source_path, item_name, destination_path,
                            new_name)
       IN  /\ fs' = o.fs
           /\ calls' = FdFollow(cs, o.fs, o.src, o.dst)
           /\ hist' = Append(hist,
                  [op |-> operation, dir |-> source_path, fname |-> item_name,
                   new |-> new_name, to |-> destination_path,
                   idx |-> 0, total |-> 0,
                   res |-> IF o.code = "OK" THEN "done" ELSE "error",
                   code |-> o.code, status |-> StatusOf(o.code),
                   alone |-> (InFlight = {}), complete |-> FALSE, why |-> "",
                   valid |-> o.valid, kept |-> (o.fs = fs),
                   before |-> Content(fs, t), parts0 |-> {},
                   dest |-> Content(o.fs, t),
                   item0 |-> Content(fs, Join(source_path, item_name)),
                   item |-> Content(o.fs, Join(source_path, item_name)),
                   loc |-> Resolve(fs, Join(source_path, item_name)).at,
                   tree0 |-> fs, tree |-> o.fs,
                   temp0 |-> [there |-> FALSE, data |-> <<>>],
                   temp |-> [there |-> FALSE, data |-> <<>>],
                   parts |-> {}])
           /\ touched' = touched \cup (IF o.code = "OK" THEN {o.target} ELSE {})
           /\ overlap' = (overlap \/ InFlight # {})
    /\ UNCHANGED <<base_dir, upload_dir, reasm, budget, fs0, file_chunks>>

(***************************************************************************)
(* The volume and the upload sessions of the specification Spec: chunked   *)
(* uploads of one file into the volume root, delivered in any order and    *)
(* concurrently, and the removal of the file.                              *)
(***************************************************************************)
\* UPLOAD_DIR = Path('/runpod-volume')
UPLOAD_DIR == <<<<"runpod-volume">>>>

\* the location of the path lies in the volume
InVolume(f, path) ==
    LET r == Resolve(f, path) IN r.ok /\ IsPrefix(UPLOAD_DIR, r.at)

FileA == <<"a", ".txt">>
SessionNames == {Rel(<<FileA>>)}

\* the volume: empty, or holding a file under the destination name (taken),
\* or the part-files of the chunks in recv that an upload in progress left
EmptyVolume == (<<>> :> DirNode) @@ (UPLOAD_DIR :> DirNode)

RECURSIVE WithParts(_, _)
WithParts(f, recv) ==
    IF recv = {} THEN f
    ELSE LET i == CHOOSE x \in recv : TRUE
             d1 == mkdir_exist_ok(f, chunks_dir(UPLOAD_DIR)).fs
             d2 == mkdir_exist_ok(d1, file_chunks_dir(UPLOAD_DIR, Rel(<<FileA>>))).fs
             p == part_path(UPLOAD_DIR, Rel(<<FileA>>), i)
         IN  WithParts(Put(d2, Resolve(d2, p).at, FileNode(ChunkData(i))),
                       recv \ {i})

InitTree(recv, taken) ==
    LET f == WithParts(EmptyVolume, recv)
    IN  IF taken THEN Put(f, Append(UPLOAD_DIR, FileA), FileNode(OldData)) ELSE f

Init ==
    /\ file_chunks \in 1..MaxChunks
    /\ fs \in {InitTree(recv, taken) :
                  recv \in SUBSET (0..(file_chunks - 2)), taken \in BOOLEAN}
    /\ base_dir = UPLOAD_DIR
    /\ upload_dir = UPLOAD_DIR
    /\ calls = [c \in Slots |-> Idle]
    /\ hist = <<>>
    /\ reasm = <<>>
    /\ overlap = FALSE
    /\ budget = 0
    /\ touched = {}
    /\ fs0 = fs

\* POST /upload-chunk/{path} (app.py 505-530) for a chunk of a session: the
\* client cut its file into file_chunks chunks
UploadChunkRequest ==
    \E c \in Slots, filename \in SessionNames, total_chunks \in {file_chunks} :
        \E chunk_index \in 0..(total_chunks - 1) :
            upload_chunk_begin(c, filename, chunk_index, total_chunks,
                               ChunkData(chunk_index), Join(upload_dir, Rel(<<>>)))

UploadChunkStep ==
    \E c \in Slots :
        \/ upload_chunk_part_open(c)
        \/ upload_chunk_part_write(c)
        \/ upload_chunk_trigger(c)
        \/ upload_chunk_temp_open(c)
        \/ upload_chunk_loop(c)
        \/ upload_chunk_read(c)
        \/ upload_chunk_temp_write(c)
        \/ upload_chunk_cleanup(c)
        \/ upload_chunk_finish(c)

\* POST /delete/{path} (app.py 560-572) for the file of a session
DeleteRequest ==
    \E item_name \in SessionNames :
        file_operation("delete", Join(upload_dir, Rel(<<>>)), item_name,
                       <<>>, Rel(<<>>))

Next == UploadChunkRequest \/ UploadChunkStep \/ DeleteRequest

Spec == Init /\ [][Next]_vars

(***************************************************************************)
(* The specification SpecOps: requests served one after the other on a     *)
(* volume that has a file and a subdirectory, next to a directory outside   *)
(* the volume whose name begins with the volume's name. The path and name   *)
(* arguments are what a client can send: names that are taken or free,      *)
(* with or without a suffix, with "/", with ".." and absolute.              *)
(***************************************************************************)
Sub == <<"sub">>
FileB == <<"b", ".png">>
FileTmp == <<"a", ".tmp">>
FileBare == <<"a">>
Sibling == <<"runpod-volume", "-old">>

\* the volume; in_sub: the subdirectory has a file a.txt too; tmp: the volume
\* has a file a.tmp
OpsVolume(in_sub, tmp) ==
    LET f0 == Put(EmptyVolume, <<Sibling>>, DirNode)
        f1 == Put(f0, Append(UPLOAD_DIR, FileA), FileNode(OldData))
        f2 == Put(f1, Append(UPLOAD_DIR, Sub), DirNode)
        f3 == Put(f2, <<Sibling, FileA>>, FileNode(OldData))
        f4 == IF in_sub
              THEN Put(f3, UPLOAD_DIR \o <<Sub, FileA>>, FileNode(OldData)) ELSE f3
    IN  IF tmp THEN Put(f4, Append(UPLOAD_DIR, FileTmp), FileNode(OldData)) ELSE f4

\* the path of a route /.../{path:path} and the destination of a move
OpsPaths == {Rel(<<>>), Rel(<<Sub>>), Rel(<<DotDot>>), Abs(<<Sibling>>)}

\* the names of items
ItemNames == {Rel(<<FileA>>), Rel(<<Sub>>), Rel(<<DotDot, Sibling>>)}

\* new names
NewNames == {Rel(<<>>), Rel(<<FileA>>), Rel(<<FileB>>), Rel(<<Sub, FileB>>),
             Rel(<<DotDot, FileB>>), Abs(<<FileB>>)}

\* the names of uploaded files
UploadNames == {Rel(<<FileA>>), Rel(<<FileB>>), Rel(<<FileTmp>>),
                Rel(<<FileBare>>), Rel(<<DotDot, FileB>>),
                Abs(<<FileB>>)}

InitOps ==
    /\ file_chunks \in 1..MaxChunks
    /\ fs \in {OpsVolume(in_sub, tmp) : in_sub \in BOOLEAN, tmp \in BOOLEAN}
    /\ base_dir = UPLOAD_DIR
    /\ upload_dir = UPLOAD_DIR
    /\ calls = [c \in Slots |-> Idle]
    /\ hist = <<>>
    /\ reasm = <<>>
    /\ overlap = FALSE
    /\ budget \in 0..MaxFaults
    /\ touched = {}
    /\ fs0 = fs

\* the server takes the next request when the last one is answered
OpsCanDeliver == InFlight = {} /\ Len(hist) < MaxOps

\* POST /rename/{path} (app.py 546-558)
OpsRename ==
    /\ OpsCanDeliver
    /\ \E path \in OpsPaths, old_name \in ItemNames, new_name \in NewNames :
           file_operation("rename", Join(UPLOAD_DIR, path), old_name, <<>>, new_name)

\* POST /delete/{path} (app.py 560-572)
OpsDelete ==
    /\ OpsCanDeliver
    /\ \E path \in OpsPaths, item_name \in ItemNames :
           file_operation("delete", Join(UPLOAD_DIR, path), item_name, <<>>,
                          Rel(<<>>))

\* POST /move/{path} (app.py 574-593)
OpsMove ==
    /\ OpsCanDeliver
    /\ \E path \in OpsPaths, item_name \in ItemNames, destination \in OpsPaths :
           file_operation("move", Join(UPLOAD_DIR, path), item_name,
                          Join(UPLOAD_DIR, destination), Rel(<<>>))

\* POST /upload/{path} (app.py 490-503)
OpsUpload ==
    /\ OpsCanDeliver
    /\ \E c \in Slots, path \in OpsPaths, filename \in UploadNames :
           upload_begin(c, filename, Join(UPLOAD_DIR, path))

\* POST /upload-chunk/{path} (app.py 505-530)
OpsUploadChunk ==
    /\ OpsCanDeliver
    /\ \E c \in Slots, path \in OpsPaths, filename \in UploadNames :
           \E chunk_index \in 0..(file_chunks - 1) :
               upload_chunk_begin(c, filename, chunk_index, file_chunks,
                                  ChunkData(chunk_index), Join(UPLOAD_DIR, path))

UploadStep ==
    \E c \in Slots :
        \/ upload_open(c)
        \/ upload_write(c)
        \/ upload_cleanup(c)
        \/ upload_rename(c)

NextOps ==
    \/ OpsRename
    \/ OpsDelete
    \/ OpsMove
    \/ OpsUpload
    \/ OpsUploadChunk
    \/ UploadStep
    \/ UploadChunkStep

SpecOps == InitOps /\ [][NextOps]_vars

(***************************************************************************)
(* The specification SpecTwo: two files of the volume root whose names     *)
(* differ in their suffix only, a.txt and a.png, each uploaded whole or in  *)
(* chunks, the two requests in flight together or one after the other.     *)
(***************************************************************************)
FilePng == <<"a", ".png">>
TwoNames == {Rel(<<FileA>>), Rel(<<FilePng>>)}

\* the bytes of chunk i of a file: the two files differ in every chunk
DataOf(filename, i) ==
    IF filename = Rel(<<FilePng>>) THEN <<i + 10>> ELSE ChunkData(i)

\* how many requests are delivered in one behaviour of SpecTwo
MaxPair == 2

\* has_tmp: a file a.tmp is in the volume before the uploads; up to MaxFaults
\* filesystem calls fail
InitTwo ==
    /\ file_chunks \in 1..MaxChunks
    /\ fs \in {IF has_tmp
               THEN Put(EmptyVolume, Append(UPLOAD_DIR, FileTmp), FileNode(OldData))
               ELSE EmptyVolume : has_tmp \in BOOLEAN}
    /\ base_dir = UPLOAD_DIR
    /\ upload_dir = UPLOAD_DIR
    /\ calls = [c \in Slots |-> Idle]
    /\ hist = <<>>
    /\ reasm = <<>>
    /\ overlap = FALSE
    /\ budget = MaxFaults
    /\ touched = {}
    /\ fs0 = fs

TwoCanDeliver == Len(hist) + Cardinality(InFlight) < MaxPair

\* POST /upload-chunk/ (app.py 505-530) for a chunk of one of the two files
TwoUploadChunk ==
    /\ TwoCanDeliver
    /\ \E c \in Slots, filename \in TwoNames, chunk_index \in 0..(file_chunks - 1) :
           upload_chunk_begin(c, filename, chunk_index, file_chunks,
                              DataOf(filename, chunk_index), Join(upload_dir, Rel(<<>>)))

\* POST /upload/ (app.py 490-503) of one of the two files
TwoUpload ==
    /\ TwoCanDeliver
    /\ \E c \in Slots, filename \in TwoNames :
           upload_begin(c, filename, Join(upload_dir, Rel(<<>>)))

NextTwo ==
    \/ TwoUploadChunk
    \/ TwoUpload
    \/ UploadStep
    \/ UploadChunkStep

SpecTwo == InitTwo /\ [][NextTwo]_vars

(***************************************************************************)
(* FileSystem.create_folder (app.py 270-289) and FileSystem.move_multiple  *)
(* (app.py 350-374). Both are synchronous: one request is one step.        *)
(***************************************************************************)
\* base_name = "Untitled Folder"
base_name == <<"Untitled Folder">>

\* a numbering that leaves out a number
numbered_next(counter) == Rel(<<base_name \o <<" ">> \o IntStr(counter + 1)>>)

\* f"{base_name} {counter}"
numbered(counter) == Rel(<<base_name \o <<" ">> \o IntStr(counter)>>)

\* 279-281: the loop that looks for a name that does not exist
RECURSIVE free_name(_, _, _, _)
free_name(f, path, folder_name, counter) ==
    IF exists(f, Join(path, folder_name))
    THEN free_name(f, path, numbered(counter), counter + 1)
    ELSE folder_name

\* one request of create_folder; its result keeps the tree before and after
create_folder(path) ==
    \E fail \in FaultChoices :
        LET v == validate_path(fs, base_dir, path, TRUE)
            folder_name == IF v = "OK" THEN free_name(fs, path, Rel(<<base_name>>), 1)
                           ELSE Rel(<<>>)
            m == IF fail THEN [ok |-> FALSE, fs |-> fs]
                 ELSE mkdir(fs, Join(path, folder_name))
            code == IF v # "OK" THEN v ELSE IF m.ok THEN "OK" ELSE "ACCESS_DENIED"
            g == IF code = "OK" THEN m.fs ELSE fs
        IN  /\ (fail => v = "OK")
            /\ budget' = IF fail THEN budget - 1 ELSE budget
            /\ fs' = g
            /\ hist' = Append(hist,
                   [op |-> "create_folder", dir |-> path, fname |-> Rel(<<>>),
                    name |-> IF code = "OK" THEN folder_name ELSE Rel(<<>>),
                    res |-> IF code = "OK" THEN "done" ELSE "error",
                    code |-> code, status |-> StatusOf(code),
                    tree0 |-> fs, tree |-> g])
            /\ touched' = touched \cup
                   (IF code = "OK" THEN {Join(path, folder_name)} ELSE {})
            /\ overlap' = (overlap \/ InFlight # {})
            /\ UNCHANGED <<base_dir, upload_dir, calls, reasm, fs0, file_chunks>>

\* a loop over item_names that ends at the first item that fails
RECURSIVE move_each_stop(_, _, _, _, _)
move_each_stop(st, base, source_path, item_names, destination_path) ==
    IF item_names = <<>> THEN st
    ELSE LET item_name == Head(item_names)
             o == file_operation_outcome(st.fs, base, "move", source_path,
                                         item_name, destination_path, Rel(<<>>))
         IN  IF o.code # "OK"
             THEN [st EXCEPT !.failed = Append(@, [name |-> item_name,
                                                   error |-> o.code])]
             ELSE move_each_stop(
                      [st EXCEPT !.fs = o.fs,
                                 !.calls = FdFollow(st.calls, o.fs, o.src, o.dst),
                                 !.success = Append(@, item_name),
                                 !.made = @ \cup {o.target}],
                      base, source_path, Tail(item_names), destination_path)

\* 358-369: the loop over item_names; st holds the tree, the descriptors of
\* the requests in flight, the results and the paths the moves made
RECURSIVE move_each(_, _, _, _, _)
move_each(st, base, source_path, item_names, destination_path) ==
    IF item_names = <<>> THEN st
    ELSE LET item_name == Head(item_names)
             o == file_operation_outcome(st.fs, base, "move", source_path,
                                         item_name, destination_path, Rel(<<>>))
         IN  move_each(
                 [fs |-> o.fs,
                  calls |-> FdFollow(st.calls, o.fs, o.src, o.dst),
                  success |-> IF o.code = "OK" THEN Append(st.success, item_name)
                              ELSE st.success,
                  failed |-> IF o.code = "OK" THEN st.failed
                             ELSE Append(st.failed,
                                         [name |-> item_name, error |-> o.code]),
                  made |-> IF o.code = "OK" THEN st.made \cup {o.target}
                           ELSE st.made],
                 base, source_path, Tail(item_names), destination_path)

\* one request of move_multiple; its result keeps the tree before and after
move_multiple(source_path, item_names, destination_path) ==
    LET v1 == validate_path(fs, base_dir, source_path, TRUE)
        v2 == validate_path(fs, base_dir, destination_path, TRUE)
        code == IF v1 # "OK" THEN v1 ELSE v2
        st0 == [fs |-> fs, calls |-> calls, success |-> <<>>, failed |-> <<>>,
                made |-> {}]
        st == IF code = "OK"
              THEN move_each(st0, base_dir, source_path, item_names, destination_path)
              ELSE st0
    IN  /\ fs' = st.fs
        /\ calls' = st.calls
        /\ hist' = Append(hist,
               [op |-> "move_multiple", dir |-> source_path, fname |-> Rel(<<>>),
                to |-> destination_path, names |-> item_names,
                res |-> IF code = "OK" THEN "done" ELSE "error",
                code |-> code, status |-> StatusOf(code),
                success |-> st.success, failed |-> st.failed,
                tree0 |-> fs, tree |-> st.fs])
        /\ touched' = touched \cup st.made
        /\ overlap' = (overlap \/ InFlight # {})
        /\ UNCHANGED <<base_dir, upload_dir, reasm, budget, fs0, file_chunks>>

(***************************************************************************)
(* The specification SpecDir: folders created in and items moved between   *)
(* the volume root and its subdirectory sub, one request after the other.  *)
(***************************************************************************)
DirD == <<"d">>

\* the items of the root: two files and a directory that holds a file
DirItems == <<Rel(<<FileA>>), Rel(<<FileB>>), Rel(<<DirD>>)>>

\* the folders that create_folder made earlier
Untitled == {Rel(<<base_name>>), numbered(1), numbered(2)}

\* the tree f with the item of that name in directory dir
WithItem(f, dir, name) ==
    IF name = Rel(<<DirD>>)
    THEN Put(Put(f, Append(dir, DirD), DirNode),
             dir \o <<DirD, FileA>>, FileNode(<<Len(dir)>>))
    ELSE Put(f, dir \o name.segs, FileNode(<<Len(dir)>>))

RECURSIVE WithItems(_, _, _)
WithItems(f, dir, names) ==
    IF names = {} THEN f
    ELSE LET n == CHOOSE x \in names : TRUE
         IN  WithItems(WithItem(f, dir, n), dir, names \ {n})

\* the volume: the three items in the root, a subdirectory sub that holds
\* the items of taken, and the folders of folders that were created before
DirVolume(taken, folders) ==
    LET f0 == Put(EmptyVolume, Append(UPLOAD_DIR, Sub), DirNode)
        f1 == WithItems(f0, UPLOAD_DIR, {DirItems[k] : k \in 1..Len(DirItems)})
        f2 == WithItems(f1, Append(UPLOAD_DIR, Sub), taken)
    IN  [l \in DOMAIN f2 \cup {UPLOAD_DIR \o n.segs : n \in folders} |->
            IF l \in DOMAIN f2 THEN f2[l] ELSE DirNode]

\* how many requests are served in one behaviour of SpecDir
MaxDirOps == 1

\* how many names one move_multiple request carries
MaxItems == 3

InitDir ==
    /\ file_chunks = 1
    /\ fs \in {DirVolume(taken, folders) :
                  taken \in SUBSET {DirItems[k] : k \in 1..Len(DirItems)},
                  folders \in SUBSET Untitled}
    /\ base_dir = UPLOAD_DIR
    /\ upload_dir = UPLOAD_DIR
    /\ calls = [c \in Slots |-> Idle]
    /\ hist = <<>>
    /\ reasm = <<>>
    /\ overlap = FALSE
    /\ budget = 0
    /\ touched = {}
    /\ fs0 = fs

DirCanDeliver == InFlight = {} /\ Len(hist) < MaxDirOps

\* the lists of item names without duplicates
ItemLists ==
    {l \in UNION {[1..n -> {DirItems[k] : k \in 1..Len(DirItems)}] : n \in 0..MaxItems} :
        \A i \in DOMAIN l, j \in DOMAIN l : i # j => l[i] # l[j]}

\* the directories a request names
DirPaths == {Rel(<<>>), Rel(<<Sub>>)}

\* POST /create-folder/{path} (app.py 532-544)
DirCreateFolder ==
    /\ DirCanDeliver
    /\ \E path \in DirPaths : create_folder(Join(upload_dir, path))

\* FileSystem.move_multiple called with directories of the volume
DirMoveMultiple ==
    /\ DirCanDeliver
    /\ \E source \in DirPaths, destination \in DirPaths, item_names \in ItemLists :
           move_multiple(Join(upload_dir, source), item_names,
                         Join(upload_dir, destination))

NextDir ==
    \/ DirCreateFolder
    \/ DirMoveMultiple

SpecDir == InitDir /\ [][NextDir]_vars

(***************************************************************************)
(* The route change_directory (app.py 393-427): it replaces UPLOAD_DIR and *)
(* the FileSystem whose base_dir it is. It has no await between its checks *)
(* and its assignment: one request is one step.                            *)
(***************************************************************************)
\* BASE_DIR = Path(__file__).resolve().parent.parent
BASE_DIR == <<<<"srv">>>>

\* a constructor that keeps the root the application starts with
FileSystem_initial(root) == [base_dir |-> <<<<"runpod-volume">>>>]

\* FileSystem.__init__ (63-65)
FileSystem(root) == [base_dir |-> root]

\* one request of change_directory; its result keeps the root before it
\* (base0) and after it (base), and the tree of the moment; 418 assigns
\* UPLOAD_DIR and 419 the FileSystem made of it
change_directory(new_path) ==
    LET p == Join(BASE_DIR, new_path)
        r == Resolve(fs, p)
        code == IF new_path = Rel(<<>>) THEN "EMPTY_PATH"
                ELSE IF ~exists(fs, p) THEN "NOT_FOUND"
                ELSE IF ~is_dir(fs, p) THEN "NOT_A_DIRECTORY"
                ELSE "OK"
        u == IF code = "OK" THEN r.at ELSE upload_dir
        b == IF code = "OK" THEN FileSystem(u).base_dir ELSE base_dir
    IN  /\ upload_dir' = u
        /\ base_dir' = b
        /\ hist' = Append(hist,
               [op |-> "change_directory", dir |-> p, fname |-> Rel(<<>>),
                res |-> IF code = "OK" THEN "done" ELSE "error",
                code |-> code,
                status |-> IF code = "OK" THEN 200
                           ELSE IF code = "NOT_FOUND" THEN 404 ELSE 400,
                base0 |-> base_dir, base |-> b,
                upload0 |-> upload_dir, upload |-> u, tree |-> fs])
        /\ overlap' = (overlap \/ InFlight # {})
        /\ UNCHANGED <<fs, calls, reasm, budget, touched, fs0, file_chunks>>

(***************************************************************************)
(* The specification SpecSeq: the chunks of a.txt sent to the route path   *)
(* '' one after the other, a chunk possibly sent again with other bytes,   *)
(* and the root changed between them.                                      *)
(***************************************************************************)
\* the bytes of chunk i when the client sends it again
NewData(i) == <<i + 20>>

\* the volume with its subdirectory, and the directory of the application
SeqVolume ==
    Put(Put(EmptyVolume, Append(UPLOAD_DIR, Sub), DirNode), BASE_DIR, DirNode)

\* how many requests are served in one behaviour of SpecSeq
MaxSeq == 3

InitSeq ==
    /\ file_chunks \in 1..MaxChunks
    /\ fs = SeqVolume
    /\ base_dir = UPLOAD_DIR
    /\ upload_dir = UPLOAD_DIR
    /\ calls = [c \in Slots |-> Idle]
    /\ hist = <<>>
    /\ reasm = <<>>
    /\ overlap = FALSE
    /\ budget = 0
    /\ touched = {}
    /\ fs0 = fs

SeqCanDeliver == InFlight = {} /\ Len(hist) < MaxSeq

\* POST /upload-chunk/ (app.py 505-530) with the path ''
SeqUploadChunk ==
    /\ SeqCanDeliver
    /\ \E c \in Slots, chunk_index \in 0..(file_chunks - 1) :
           \E chunk_data \in {ChunkData(chunk_index), NewData(chunk_index)} :
               upload_chunk_begin(c, Rel(<<FileA>>), chunk_index, file_chunks,
                                  chunk_data, Join(upload_dir, Rel(<<>>)))

\* the paths sent to change_directory: empty, relative, the volume, its
\* subdirectory, the uploaded file
NewPaths == {Rel(<<>>), Rel(<<Sub>>), Abs(UPLOAD_DIR), Abs(Append(UPLOAD_DIR, Sub)),
             Abs(Append(UPLOAD_DIR, FileA))}

\* POST /change-directory (app.py 393-427)
SeqChangeDirectory ==
    /\ SeqCanDeliver
    /\ \E new_path \in NewPaths : change_directory(new_path)

NextSeq ==
    \/ SeqUploadChunk
    \/ SeqChangeDirectory
    \/ UploadChunkStep

SpecSeq == InitSeq /\ [][NextSeq]_vars

(***************************************************************************)
(* FileSystem.get_contents (app.py 108-139): it reads the directory and    *)
(* changes nothing. It is synchronous: one request is one step.            *)
(***************************************************************************)
\* the entries of the directory at location loc
Children(f, loc) == {l \in DOMAIN f : l # <<>> /\ Parent(l) = loc}

RECURSIVE SumSizes(_, _)
SumSizes(f, locs) ==
    IF locs = {} THEN 0
    ELSE LET l == CHOOSE x \in locs : TRUE
         IN  Len(f[l].data) + SumSizes(f, locs \ {l})

\* get_folder_size (92-106): the sizes of the files below the folder
get_folder_size(f, loc) ==
    SumSizes(f, {l \in DOMAIN f : IsPrefix(loc, l) /\ IsFileAt(f, l)})

\* one request of get_contents; path.relative_to(base_dir) raises ValueError
\* for a path that does not begin with the parts of base_dir
get_contents(path) ==
    LET v == validate_path(fs, base_dir, path, TRUE)
        at == Resolve(fs, path).at
        code == IF v # "OK" THEN v
                ELSE IF ~IsPrefix(base_dir, path) THEN "ValueError" ELSE "OK"
        listed == IF code = "OK" THEN Children(fs, at) ELSE {}
    IN  /\ hist' = Append(hist,
               [op |-> "get_contents", dir |-> path, fname |-> Rel(<<>>),
                res |-> IF code = "OK" THEN "done" ELSE "error",
                code |-> code, status |-> StatusOf(code),
                files |-> {[name |-> l[Len(l)], size |-> Len(fs[l].data)] :
                              l \in {x \in listed : IsFileAt(fs, x)}},
                folders |-> {[name |-> l[Len(l)], size |-> get_folder_size(fs, l)] :
                                l \in {x \in listed : ~IsFileAt(fs, x)}},
                path_parts |-> IF code = "OK"
                               THEN SubSeq(path, Len(base_dir) + 1, Len(path))
                               ELSE <<>>])
        /\ overlap' = (overlap \/ InFlight # {})
        /\ UNCHANGED <<fs, base_dir, upload_dir, calls, reasm, budget, touched, fs0, file_chunks>>

(***************************************************************************)
(* The specification SpecGuard: one request of each operation that names a *)
(* directory, for directories that fail one or several checks of           *)
(* validate_path, on a volume that is mounted or not.                      *)
(***************************************************************************)
NoDir == <<"nodir">>

\* outside the volume: a file /a.txt and the directory of the application;
\* in the volume, if it is mounted, a file a.txt and the directories sub, d
GuardVolume(mounted) ==
    LET f0 == (<<>> :> DirNode) @@ (<<FileA>> :> FileNode(OldData))
                  @@ (BASE_DIR :> DirNode)
        f1 == Put(f0, UPLOAD_DIR, DirNode)
        f2 == Put(f1, Append(UPLOAD_DIR, Sub), DirNode)
        f3 == WithItem(WithItem(f2, UPLOAD_DIR, Rel(<<FileA>>)), UPLOAD_DIR, Rel(<<DirD>>))
    IN  IF mounted THEN f3 ELSE f0

\* the directories the requests name: the root, a subdirectory, a file, a
\* missing name, and outside the volume a missing name, a file and '/'
GuardPaths == {Rel(<<>>), Rel(<<Sub>>), Rel(<<FileA>>), Rel(<<NoDir>>),
               Abs(<<NoDir>>), Abs(<<FileA>>), Abs(<<>>)}

\* how many requests are served in one behaviour of SpecGuard
MaxGuardOps == 1

InitGuard ==
    /\ file_chunks = 1
    /\ fs \in {GuardVolume(mounted) : mounted \in BOOLEAN}
    /\ base_dir = UPLOAD_DIR
    /\ upload_dir = UPLOAD_DIR
    /\ calls = [c \in Slots |-> Idle]
    /\ hist = <<>>
    /\ reasm = <<>>
    /\ overlap = FALSE
    /\ budget \in 0..MaxFaults
    /\ touched = {}
    /\ fs0 = fs

GuardCanDeliver == InFlight = {} /\ Len(hist) < MaxGuardOps

\* FileSystem.get_contents (app.py 108-139) called with a directory
GuardGetContents ==
    /\ GuardCanDeliver
    /\ \E path \in GuardPaths : get_contents(Join(upload_dir, path))

\* POST /upload/{path} (app.py 490-503)
GuardUpload ==
    /\ GuardCanDeliver
    /\ \E c \in Slots, path \in GuardPaths :
           upload_begin(c, Rel(<<FileB>>), Join(upload_dir, path))

\* POST /upload-chunk/{path} (app.py 505-530)
GuardUploadChunk ==
    /\ GuardCanDeliver
    /\ \E c \in Slots, path \in GuardPaths :
           upload_chunk_begin(c, Rel(<<FileB>>), 0, file_chunks, ChunkData(0),
                              Join(upload_dir, path))

\* POST /create-folder/{path} (app.py 532-544)
GuardCreateFolder ==
    /\ GuardCanDeliver
    /\ \E path \in GuardPaths : create_folder(Join(upload_dir, path))

\* POST /rename/{path}, /delete/{path}, /move/{path} (app.py 546-593)
GuardFileOperation ==
    /\ GuardCanDeliver
    /\ \E operation \in {"rename", "delete", "move"}, path \in GuardPaths :
       \E item_name \in {Rel(<<FileA>>), Rel(<<NoDir>>)}, destination \in GuardPaths :
           file_operation(operation, Join(upload_dir, path), item_name,
                          Join(upload_dir, destination), Rel(<<FileB>>))

\* FileSystem.move_multiple (app.py 350-374)
GuardMoveMultiple ==
    /\ GuardCanDeliver
    /\ \E source \in GuardPaths, destination \in GuardPaths :
           move_multiple(Join(upload_dir, source), <<Rel(<<FileA>>), Rel(<<DirD>>)>>,
                         Join(upload_dir, destination))

NextGuard ==
    \/ GuardGetContents
    \/ GuardUpload
    \/ GuardUploadChunk
    \/ GuardCreateFolder
    \/ GuardFileOperation
    \/ GuardMoveMultiple
    \/ UploadStep
    \/ UploadChunkStep

SpecGuard == InitGuard /\ [][NextGuard]_vars

(***************************************************************************)
(* The specification SpecRange: chunks of a.txt sent one after the other   *)
(* with any chunk_index and total_chunks the form fields can carry, also   *)
(* negative ones and indices beyond the total.                             *)
(***************************************************************************)
\* how many requests are served in one behaviour of SpecRange
MaxRange == 2

InitRange ==
    /\ file_chunks = MaxChunks
    /\ fs = EmptyVolume
    /\ base_dir = UPLOAD_DIR
    /\ upload_dir = UPLOAD_DIR
    /\ calls = [c \in Slots |-> Idle]
    /\ hist = <<>>
    /\ reasm = <<>>
    /\ overlap = FALSE
    /\ budget = 0
    /\ touched = {}
    /\ fs0 = fs

RangeCanDeliver == InFlight = {} /\ Len(hist) < MaxRange

\* POST /upload-chunk/ (app.py 505-530): chunk_index: int, total_chunks: int
RangeUploadChunk ==
    /\ RangeCanDeliver
    /\ \E c \in Slots, chunk_index \in (0 - 1)..file_chunks, total_chunks \in 0..file_chunks :
           upload_chunk_begin(c, Rel(<<FileA>>), chunk_index, total_chunks,
                              ChunkData(chunk_index), Join(upload_dir, Rel(<<>>)))

NextRange ==
    \/ RangeUploadChunk
    \/ UploadChunkStep

SpecRange == InitRange /\ [][NextRange]_vars

(***************************************************************************)
(* create_folder (app.py 270-289) served by several worker processes on    *)
(* one volume: the system calls of one call interleave with those of the   *)
(* other, so every exists of the loop and the mkdir are steps of their own.*)
(***************************************************************************)
\* 273-277: validate_path, then folder_name = base_name and counter = 1
create_folder_begin(c, path) ==
    /\ calls[c].pc = "idle"
    /\ \A d \in Slots : d < c => calls[d].pc # "idle"
    /\ LET v == validate_path(fs, base_dir, path, TRUE)
       IN  IF v = "OK"
           THEN /\ calls' = Started(calls, c,
                       [Idle EXCEPT !.op = "create_folder", !.pc = "cf_check",
                                    !.dir = path, !.fname = Rel(<<base_name>>),
                                    !.i = 1])
                /\ UNCHANGED hist
           ELSE /\ hist' = Append(hist,
                       [op |-> "create_folder", dir |-> path, fname |-> Rel(<<>>),
                        name |-> Rel(<<>>), res |-> "error", code |-> v,
                        status |-> StatusOf(v), tree0 |-> fs, tree |-> fs])
                /\ UNCHANGED calls
    /\ overlap' = (overlap \/ InFlight # {})
    /\ UNCHANGED <<fs, base_dir, upload_dir, reasm, budget, touched, fs0, file_chunks>>

\* 279-281: one test of the while loop
create_folder_check(c) ==
    /\ calls[c].pc = "cf_check"
    /\ LET cl == calls[c]
       IN  calls' = [calls EXCEPT ![c] =
               IF exists(fs, Join(cl.dir, cl.fname))
               THEN [cl EXCEPT !.fname = numbered(cl.i), !.i = cl.i + 1]
               ELSE [cl EXCEPT !.pc = "cf_mkdir"]]
    /\ UNCHANGED <<fs, base_dir, upload_dir, hist, reasm, overlap, budget, touched, fs0,
                   file_chunks>>

\* 283-289: mkdir of the name found free, or ACCESS_DENIED
create_folder_mkdir(c) ==
    /\ calls[c].pc = "cf_mkdir"
    /\ \E fail \in FaultChoices :
        LET cl == calls[c]
            m == IF fail THEN [ok |-> FALSE, fs |-> fs]
                 ELSE mkdir(fs, Join(cl.dir, cl.fname))
            code == IF m.ok THEN "OK" ELSE "ACCESS_DENIED"
        IN  /\ budget' = IF fail THEN budget - 1 ELSE budget
            /\ fs' = m.fs
            /\ hist' = Append(hist,
                   [op |-> "create_folder", dir |-> cl.dir, fname |-> Rel(<<>>),
                    name |-> IF m.ok THEN cl.fname ELSE Rel(<<>>),
                    res |-> IF m.ok THEN "done" ELSE "error",
                    code |-> code, status |-> StatusOf(code),
                    tree0 |-> fs, tree |-> m.fs])
            /\ touched' = touched \cup
                   (IF m.ok THEN {Join(cl.dir, cl.fname)} ELSE {})
            /\ calls' = [calls EXCEPT ![c] = Idle]
    /\ UNCHANGED <<base_dir, upload_dir, reasm, overlap, fs0, file_chunks>>

(***************************************************************************)
(* The specification SpecRace: create_folder calls of two workers on the   *)
(* volume root and on sub, where some of the 'Untitled Folder' names are   *)
(* taken in the root.                                                      *)
(***************************************************************************)
\* how many requests are served in one behaviour of SpecRace
MaxRace == 2

InitRace ==
    /\ file_chunks = 1
    /\ fs \in {DirVolume({}, folders) : folders \in SUBSET Untitled}
    /\ base_dir = UPLOAD_DIR
    /\ upload_dir = UPLOAD_DIR
    /\ calls = [c \in Slots |-> Idle]
    /\ hist = <<>>
    /\ reasm = <<>>
    /\ overlap = FALSE
    /\ budget = 0
    /\ touched = {}
    /\ fs0 = fs

RaceCanDeliver == Len(hist) + Cardinality(InFlight) < MaxRace

\* POST /create-folder/{path} (app.py 532-544)
RaceCreateFolder ==
    /\ RaceCanDeliver
    /\ \E c \in Slots, path \in DirPaths : create_folder_begin(c, Join(upload_dir, path))

CreateFolderStep ==
    \E c \in Slots :
        \/ create_folder_check(c)
        \/ create_folder_mkdir(c)

NextRace ==
    \/ RaceCreateFolder
    \/ CreateFolderStep

SpecRace == InitRace /\ [][NextRace]_vars

(***************************************************************************)
(* The specification SpecRoot: delete, rename and move requests whose      *)
(* item_name is a name of the directory, '.', '..' or 'sub/..'; pathlib    *)
(* drops '.' and the empty name, so both are the path without names.       *)
(***************************************************************************)
\* how many requests are served in one behaviour of SpecRoot
MaxRootOps == 2

\* the item names of the requests
RootItems == {Rel(<<>>), Rel(<<DotDot>>), Rel(<<Sub, DotDot>>), Rel(<<FileA>>),
              Rel(<<Sub>>)}

\* the directories of the requests: the route path and the destination
RootPaths == {Rel(<<>>), Rel(<<Sub>>)}

InitRoot ==
    /\ file_chunks = 1
    /\ fs \in {OpsVolume(in_sub, FALSE) : in_sub \in BOOLEAN}
    /\ base_dir = UPLOAD_DIR
    /\ upload_dir = UPLOAD_DIR
    /\ calls = [c \in Slots |-> Idle]
    /\ hist = <<>>
    /\ reasm = <<>>
    /\ overlap = FALSE
    /\ budget = 0
    /\ touched = {}
    /\ fs0 = fs

RootCanDeliver == Len(hist) < MaxRootOps

\* POST /rename/{path} (app.py 546-558)
RootRename ==
    /\ RootCanDeliver
    /\ \E path \in RootPaths, old_name \in RootItems :
           \E new_name \in {Rel(<<FileB>>), Rel(<<DotDot, FileB>>)} :
               file_operation("rename", Join(upload_dir, path), old_name, <<>>, new_name)

\* POST /delete/{path} (app.py 560-572)
RootDelete ==
    /\ RootCanDeliver
    /\ \E path \in RootPaths, item_name \in RootItems :
           file_operation("delete", Join(upload_dir, path), item_name, <<>>, Rel(<<>>))

\* POST /move/{path} (app.py 574-593)
RootMove ==
    /\ RootCanDeliver
    /\ \E path \in RootPaths, item_name \in RootItems, destination \in RootPaths :
           file_operation("move", Join(upload_dir, path), item_name,
                          Join(upload_dir, destination), Rel(<<>>))

NextRoot ==
    \/ RootRename
    \/ RootDelete
    \/ RootMove

SpecRoot == InitRoot /\ [][NextRoot]_vars

(***************************************************************************)
(* The specification SpecList: listings of the volume root while a.txt is  *)
(* uploaded in chunks and while b.txt is uploaded whole, and afterwards.   *)
(***************************************************************************)
\* how many requests are served in one behaviour of SpecList
MaxList == 2

InitList ==
    /\ file_chunks \in 1..MaxChunks
    /\ fs = EmptyVolume
    /\ base_dir = UPLOAD_DIR
    /\ upload_dir = UPLOAD_DIR
    /\ calls = [c \in Slots |-> Idle]
    /\ hist = <<>>
    /\ reasm = <<>>
    /\ overlap = FALSE
    /\ budget \in 0..MaxFaults
    /\ touched = {}
    /\ fs0 = fs

ListCanDeliver == Len(hist) + Cardinality(InFlight) < MaxList

\* POST /upload-chunk/ (app.py 505-530)
ListUploadChunk ==
    /\ ListCanDeliver
    /\ \E c \in Slots, chunk_index \in 0..(file_chunks - 1) :
           upload_chunk_begin(c, Rel(<<FileA>>), chunk_index, file_chunks,
                              ChunkData(chunk_index), Join(upload_dir, Rel(<<>>)))

\* POST /upload/ (app.py 490-503)
ListUpload ==
    /\ ListCanDeliver
    /\ \E c \in Slots : upload_begin(c, Rel(<<FileB>>), Join(upload_dir, Rel(<<>>)))

\* GET / (app.py 440-488): served between two steps of the handlers in flight
ListGetContents ==
    /\ ListCanDeliver
    /\ get_contents(Join(upload_dir, Rel(<<>>)))

NextList ==
    \/ ListUploadChunk
    \/ ListUpload
    \/ ListGetContents
    \/ UploadStep
    \/ UploadChunkStep

SpecList == InitList /\ [][NextList]_vars

(***************************************************************************)
(* The socket variant: sanitize_path (utils.py 6-15) and the operations of *)
(* operations.py. Their paths are strings: sequences of characters.        *)
(***************************************************************************)
\* the first "/" of a string that has one
FirstSlash(s) == CHOOSE k \in 1..Len(s) : s[k] = "/" /\ \A j \in 1..(k - 1) : s[j] # "/"

HasSlash(s) == \E k \in 1..Len(s) : s[k] = "/"

\* str.split('/')
RECURSIVE split(_)
split(s) ==
    IF ~HasSlash(s) THEN <<s>>
    ELSE <<SubSeq(s, 1, FirstSlash(s) - 1)>>
             \o split(SubSeq(s, FirstSlash(s) + 1, Len(s)))

\* '/'.join(comps)
RECURSIVE join_comps(_)
join_comps(comps) ==
    IF comps = <<>> THEN <<>>
    ELSE IF Len(comps) = 1 THEN comps[1]
    ELSE comps[1] \o <<"/">> \o join_comps(Tail(comps))

\* the loop of posixpath.normpath over the components of the path
RECURSIVE norm_comps(_, _, _)
norm_comps(comps, new_comps, initial_slashes) ==
    IF comps = <<>> THEN new_comps
    ELSE LET comp == Head(comps)
         IN  IF comp = <<>> \/ comp = <<".">>
             THEN norm_comps(Tail(comps), new_comps, initial_slashes)
             ELSE IF \/ comp # <<".", ".">>
                     \/ (initial_slashes = 0 /\ new_comps = <<>>)
                     \/ (new_comps # <<>> /\ new_comps[Len(new_comps)] = <<".", ".">>)
             THEN norm_comps(Tail(comps), Append(new_comps, comp), initial_slashes)
             ELSE IF new_comps # <<>>
             THEN norm_comps(Tail(comps), SubSeq(new_comps, 1, Len(new_comps) - 1),
                             initial_slashes)
             ELSE norm_comps(Tail(comps), new_comps, initial_slashes)

\* os.path.normpath
normpath(path) ==
    LET initial_slashes ==
            IF ~startswith(path, <<"/">>) THEN 0
            ELSE IF startswith(path, <<"/", "/">>) /\ ~startswith(path, <<"/", "/", "/">>)
            THEN 2 ELSE 1
        body == join_comps(norm_comps(split(path), <<>>, initial_slashes))
        r == [k \in 1..initial_slashes |-> "/"] \o body
    IN  IF r = <<>> THEN <<".">> ELSE r

\* os.path.basename: what follows the last "/"
RECURSIVE os_path_basename(_)
os_path_basename(s) ==
    IF ~HasSlash(s) THEN s
    ELSE os_path_basename(SubSeq(s, FirstSlash(s) + 1, Len(s)))

\* c.isalnum() or c in '._- /'
kept_char(c) == c \in {"a", "v", ".", "_", "-", " ", "/"}

RECURSIVE filter_chars(_)
filter_chars(s) ==
    IF s = <<>> THEN <<>>
    ELSE (IF kept_char(Head(s)) THEN <<Head(s)>> ELSE <<>>) \o filter_chars(Tail(s))

\* utils.py 6-15
sanitize_path(name) ==
    LET clean_path == normpath(name)
    IN  IF startswith(clean_path, <<".", ".">>) \/ startswith(clean_path, <<"/">>)
        THEN os_path_basename(clean_path)
        ELSE filter_chars(clean_path)

\* os.path.join(a, b)
os_path_join(a, b) ==
    IF startswith(b, <<"/">>) THEN b
    ELSE IF a = <<>> \/ a[Len(a)] = "/" THEN a \o b
    ELSE a \o <<"/">> \o b

\* the path of the tree that a string names: its components, ".." being
\* the parent, "." and the empty component nothing
RECURSIVE PathOfComps(_)
PathOfComps(comps) ==
    IF comps = <<>> THEN <<>>
    ELSE IF Head(comps) = <<>> \/ Head(comps) = <<".">> THEN PathOfComps(Tail(comps))
    ELSE IF Head(comps) = <<".", ".">> THEN <<DotDot>> \o PathOfComps(Tail(comps))
    ELSE <<Head(comps)>> \o PathOfComps(Tail(comps))

PathOf(s) == PathOfComps(split(s))

\* os.makedirs(path): the directories on the way are made, then the last;
\* g is the tree so far, k the number of components looked at
RECURSIVE makedirs_from(_, _, _)
makedirs_from(g, path, k) ==
    IF k > Len(path) THEN [ok |-> TRUE, fs |-> g]
    ELSE LET here == SubSeq(path, 1, k)
             m == mkdir(g, here)
         IN  IF exists(g, here) /\ k < Len(path) THEN makedirs_from(g, path, k + 1)
             ELSE IF ~m.ok THEN [ok |-> FALSE, fs |-> g]
             ELSE makedirs_from(m.fs, path, k + 1)

makedirs(f, path) ==
    IF path = <<>> THEN [ok |-> FALSE, fs |-> f] ELSE makedirs_from(f, path, 1)

\* open(path, 'ab'): creates the file or keeps what it holds
open_ab(f, path) ==
    IF is_file(f, path) THEN [ok |-> TRUE, fs |-> f] ELSE open_wb(f, path)

\* pybase64.b64decode of a text of base64 groups, one byte each
b64decode(text) ==
    [k \in 1..Len(text) |->
        CASE text[k] = "AA==" -> 0 [] text[k] = "AQ==" -> 1
          [] text[k] = "Ag==" -> 2 [] OTHER -> 3]

\* the answer of an operation: create_response(success, message), with the
\* sanitized name, the path it acted on and the tree before and after
SockResult(op, file_name, success, safe, path, g) ==
    [op |-> op, fname |-> file_name, dir |-> <<>>, idx |-> 0, total |-> 0,
     res |-> IF success THEN "done" ELSE "error",
     code |-> IF success THEN "OK" ELSE "FAILED", success |-> success,
     safe |-> safe, path |-> path, why |-> "", alone |-> TRUE,
     tree0 |-> fs, tree |-> g]

\* operations.py 49-70
delete_file(file_name, volume_path) ==
    LET safe_file_name == sanitize_path(file_name)
        file_path_ == os_path_join(volume_path, safe_file_name)
        r == IF is_dir(fs, PathOf(file_path_)) THEN [ok |-> FALSE, fs |-> fs]
             ELSE unlink(fs, PathOf(file_path_))
        ok == is_dir(fs, PathOf(volume_path)) /\ exists(fs, PathOf(file_path_)) /\ r.ok
        g == IF ok THEN r.fs ELSE fs
    IN  /\ fs' = g
        /\ hist' = Append(hist, SockResult("delete_file", file_name, ok,
                                           safe_file_name, file_path_, g))
        /\ UNCHANGED <<base_dir, upload_dir, calls, reasm, overlap, budget, touched, fs0, file_chunks>>

\* operations.py 72-93
sock_create_folder(folder_name, volume_path) ==
    LET safe_folder_name == sanitize_path(folder_name)
        folder_path == os_path_join(volume_path, safe_folder_name)
        r == makedirs(fs, PathOf(folder_path))
        ok == is_dir(fs, PathOf(volume_path)) /\ ~exists(fs, PathOf(folder_path)) /\ r.ok
        g == IF ok THEN r.fs ELSE fs
    IN  /\ fs' = g
        /\ hist' = Append(hist, SockResult("create_folder", folder_name, ok,
                                           safe_folder_name, folder_path, g))
        /\ UNCHANGED <<base_dir, upload_dir, calls, reasm, overlap, budget, touched, fs0, file_chunks>>

\* operations.py 95-118
delete_folder(folder_name, volume_path) ==
    LET safe_folder_name == sanitize_path(folder_name)
        folder_path == os_path_join(volume_path, safe_folder_name)
        r == rmtree(fs, PathOf(folder_path))
        ok == is_dir(fs, PathOf(volume_path)) /\ is_dir(fs, PathOf(folder_path)) /\ r.ok
        g == IF is_dir(fs, PathOf(volume_path)) /\ is_dir(fs, PathOf(folder_path))
             THEN r.fs ELSE fs
    IN  /\ fs' = g
        /\ hist' = Append(hist, SockResult("delete_folder", folder_name, ok,
                                           safe_folder_name, folder_path, g))
        /\ UNCHANGED <<base_dir, upload_dir, calls, reasm, overlap, budget, touched, fs0, file_chunks>>

\* operations.py 18-34: save_file up to open(file_path, mode); the handler
\* runs in a thread of its own, the write is its next step
save_file_open(c, file_name, file_content_base64, volume_path, append, current_offset) ==
    /\ calls[c].pc = "idle"
    /\ LET safe_file_name == sanitize_path(file_name)
           file_path_ == os_path_join(volume_path, safe_file_name)
           o == IF append THEN open_ab(fs, PathOf(file_path_))
                ELSE open_wb(fs, PathOf(file_path_))
           ok == is_dir(fs, PathOf(volume_path)) /\ o.ok
           rec == [Idle EXCEPT !.op = "save_file", !.pc = "s_write",
                       !.dir = PathOf(volume_path), !.fname = file_name,
                       !.data = b64decode(file_content_base64),
                       !.fd = FdAt(Resolve(fs, PathOf(file_path_)).at),
                       !.append = append, !.offset = current_offset]
       IN  IF ok
           THEN /\ fs' = o.fs
                /\ calls' = Started(calls, c, rec)
                /\ overlap' = (overlap \/ InFlight # {})
                /\ UNCHANGED hist
           ELSE /\ hist' = Append(hist,
                       [SockResult("save_file", file_name, FALSE,
                                   safe_file_name, file_path_, fs)
                           EXCEPT !.idx = current_offset])
                /\ UNCHANGED <<fs, calls, overlap>>
    /\ UNCHANGED <<base_dir, upload_dir, reasm, budget, touched, fs0, file_chunks>>

\* operations.py 34-45: f.write(decoded_data) and the answer; a file opened
\* with 'ab' is written at its end, one opened with 'wb' where the
\* descriptor stands
save_file_write(c) ==
    /\ calls[c].pc = "s_write"
    /\ LET cl == calls[c]
           g == IF ~(cl.fd.live /\ IsFileAt(fs, cl.fd.at)) THEN fs
                ELSE IF cl.append
                THEN Put(fs, cl.fd.at, FileNode(fs[cl.fd.at].data \o cl.data))
                ELSE fd_write(fs, cl.fd, cl.data)
       IN  /\ fs' = g
           /\ hist' = Append(hist,
                  [SockResult("save_file", cl.fname, TRUE, sanitize_path(cl.fname),
                              Str(cl.fd.at), g)
                      EXCEPT !.alone = cl.alone, !.idx = cl.offset,
                             !.total = cl.offset + Len(cl.data)])
           /\ calls' = [calls EXCEPT ![c] = Idle]
    /\ UNCHANGED <<base_dir, upload_dir, reasm, overlap, budget, touched, fs0, file_chunks>>

(***************************************************************************)
(* SpecSock: one socket operation on a mounted volume /v that holds a file *)
(* and a folder, next to a file /a outside of it; the name of the request  *)
(* is any string of at most MaxLen characters.                             *)
(***************************************************************************)
\* the longest file_name of a request
MaxLen == 4

\* the characters of a file_name: a letter, the dot, the separator and a
\* character that sanitize_path removes
Chars == {"a", ".", "/", "$"}

RECURSIVE StringsOf(_)
StringsOf(n) ==
    IF n = 0 THEN {<<>>}
    ELSE LET shorter == StringsOf(n - 1)
         IN  shorter \cup {Append(s, ch) : s \in shorter, ch \in Chars}

FileNames == StringsOf(MaxLen)

\* the volume_path of the requests
VolumePath == <<"/", "v">>

SockVolume ==
    (<<>> :> DirNode) @@ (<<<<"v">>>> :> DirNode) @@ (<<<<"a">>>> :> FileNode(<<7>>))
        @@ (<<<<"v">>, <<"a">>>> :> FileNode(<<8>>))
        @@ (<<<<"v">>, <<"a", "a">>>> :> DirNode)

InitSock ==
    /\ fs = SockVolume
    /\ base_dir = <<<<"v">>>>
    /\ upload_dir = <<<<"v">>>>
    /\ calls = [c \in Slots |-> Idle]
    /\ hist = <<>>
    /\ reasm = <<>>
    /\ overlap = FALSE
    /\ budget = 0
    /\ touched = {}
    /\ fs0 = SockVolume
    /\ file_chunks = 1

SockCanDeliver == hist = <<>> /\ InFlight = {}

SockSaveFile ==
    /\ SockCanDeliver
    /\ \E file_name \in FileNames :
           save_file_open(1, file_name, <<"AQ==">>, VolumePath, FALSE, 0)

SockSaveFileWrite == \E c \in Slots : save_file_write(c)

SockDeleteFile ==
    /\ SockCanDeliver
    /\ \E file_name \in FileNames : delete_file(file_name, VolumePath)

SockCreateFolder ==
    /\ SockCanDeliver
    /\ \E folder_name \in FileNames : sock_create_folder(folder_name, VolumePath)

SockDeleteFolder ==
    /\ SockCanDeliver
    /\ \E folder_name \in FileNames : delete_folder(folder_name, VolumePath)

NextSock ==
    \/ SockSaveFile
    \/ SockSaveFileWrite
    \/ SockDeleteFile
    \/ SockCreateFolder
    \/ SockDeleteFolder

SpecSock == InitSock /\ [][NextSock]_vars

(***************************************************************************)
(* SpecSockUp: the chunks of one file a are sent as 'upload_file' events;  *)
(* every event is handled in a thread of its own (__init__.py 11), so the  *)
(* handlers start in any order and run together.                           *)
(***************************************************************************)
\* the largest number of chunks of the file
MaxParts == 3

\* the base64 text of the chunk sent with offset k: one byte, the byte k
ChunkText(k) == <<<<"AA==", "AQ==", "Ag==", "Aw==">>[k + 1]>>

\* the chunk with offset k was delivered to a handler
Delivered(k) ==
    \/ \E n \in 1..Len(hist) : hist[n].op = "save_file" /\ hist[n].idx = k
    \/ \E c \in Slots : calls[c].pc # "idle" /\ calls[c].offset = k

SockUpVolume(stale) ==
    IF stale THEN SockVolume
    ELSE [l \in DOMAIN SockVolume \ {<<<<"v">>, <<"a">>>>} |-> SockVolume[l]]

InitSockUp ==
    /\ file_chunks \in 1..MaxParts
    /\ fs \in {SockUpVolume(stale) : stale \in BOOLEAN}
    /\ base_dir = <<<<"v">>>>
    /\ upload_dir = <<<<"v">>>>
    /\ calls = [c \in Slots |-> Idle]
    /\ hist = <<>>
    /\ reasm = <<>>
    /\ overlap = FALSE
    /\ budget = 0
    /\ touched = {}
    /\ fs0 = fs

\* routes.py 36-65: handle_upload of the chunk with offset k
handle_upload(c, k) ==
    /\ ~Delivered(k)
    /\ \A d \in Slots : d < c => calls[d].pc # "idle"
    /\ save_file_open(c, <<"a">>, ChunkText(k), VolumePath, k > 0, k)

SockUpHandleUpload ==
    \E c \in Slots, k \in 0..(file_chunks - 1) : handle_upload(c, k)

NextSockUp == SockUpHandleUpload \/ SockSaveFileWrite

SpecSockUp == InitSockUp /\ [][NextSockUp]_vars

(***************************************************************************)
(* FileSystem.search (app.py 141-174): a read of the tree, one step.       *)
(***************************************************************************)
\* a directory that the process may not enumerate: iterdir raises
\* PermissionError (EACCES) on it
DeniedDir == [kind |-> "dir", data |-> <<13>>]

\* a set of locations as the sequence in which the system yields them
RECURSIVE InOrder(_)
InOrder(locs) ==
    IF locs = {} THEN <<>>
    ELSE LET l == CHOOSE x \in locs : TRUE
         IN  <<l>> \o InOrder(locs \ {l})

\* an iterdir that enumerates every directory
iterdir_any(f, loc) == [ok |-> TRUE, items |-> InOrder(Children(f, loc))]

\* path.iterdir(): the entries, or PermissionError
iterdir(f, loc) ==
    IF f[loc] = DeniedDir THEN [ok |-> FALSE, items |-> <<>>]
    ELSE [ok |-> TRUE, items |-> InOrder(Children(f, loc))]

\* str.lower of a character, and of a string
lower_char(ch) == CASE ch = "A" -> "a" [] ch = "B" -> "b" [] OTHER -> ch
lower(s) == [k \in 1..Len(s) |-> lower_char(s[k])]

\* sub in s
contains(sub, s) ==
    \E k \in 1..(Len(s) - Len(sub) + 1) : SubSeq(s, k, k + Len(sub) - 1) = sub

\* search_dir (150-168): results after the entries items of a directory,
\* and after the directory at loc
RECURSIVE search_items(_, _, _, _, _)
RECURSIVE search_dir(_, _, _, _, _)
search_items(f, items, rel_path, query, results) ==
    IF items = <<>> THEN results
    ELSE LET item == Head(items)
             name == item[Len(item)]
             item_rel_path == IF rel_path # <<>> THEN rel_path \o <<"/">> \o name
                              ELSE name
             entry == [name |-> name, path |-> item_rel_path]
             r1 == IF ~contains(lower(query), lower(name)) THEN results
                   ELSE IF IsFileAt(f, item)
                   THEN [results EXCEPT !.files = Append(@, entry)]
                   ELSE [results EXCEPT !.folders = Append(@, entry)]
             r2 == IF IsDirAt(f, item)
                   THEN search_dir(f, item, item_rel_path, query, r1) ELSE r1
         IN  search_items(f, Tail(items), rel_path, query, r2)

search_dir(f, loc, rel_path, query, results) ==
    LET it == iterdir(f, loc)
    IN  IF ~it.ok THEN results
        ELSE search_items(f, it.items, rel_path, query, results)

\* one request of search(query)
search(query) ==
    LET empty == [files |-> <<>>, folders |-> <<>>]
        results == IF ~exists(fs, base_dir) THEN empty
                   ELSE search_dir(fs, base_dir, <<>>, query, empty)
    IN  /\ hist' = Append(hist,
               [op |-> "search", dir |-> <<>>, fname |-> Rel(<<>>), query |-> query,
                res |-> "done", code |-> "OK", status |-> 200,
                files |-> results.files, folders |-> results.folders])
        /\ UNCHANGED <<fs, base_dir, upload_dir, calls, reasm, overlap, budget, touched, fs0,
                       file_chunks>>

(***************************************************************************)
(* SpecSearch: searches of a volume /v whose directories are readable or   *)
(* not; the names and the queries are strings of the letters a, b, A, B.   *)
(***************************************************************************)
\* how many searches are served in one behaviour
MaxSearches == 1

\* the longest query
MaxQuery == 2

RECURSIVE QueriesOf(_)
QueriesOf(n) ==
    IF n = 0 THEN {<<>>}
    ELSE LET shorter == QueriesOf(n - 1)
         IN  shorter \cup {Append(q, ch) : q \in shorter, ch \in {"a", "b", "A", "B"}}

\* the directories of the volume, the volume root first
SearchDirs ==
    <<<<<<"v">>>>, <<<<"v">>, <<"A", "b">>>>, <<<<"v">>, <<"A", "b">>, <<"b">>>>,
      <<<<"v">>, <<"b">>>>>>

\* the files of the volume
SearchFiles ==
    {<<<<"v">>, <<"a">>>>, <<<<"v">>, <<"A", "b">>, <<"a">>>>,
     <<<<"v">>, <<"A", "b">>, <<"b">>, <<"a", "b">>>>, <<<<"v">>, <<"b">>, <<"A">>>>,
     <<<<"v">>, <<"b">>, <<"b", "a">>>>}

\* the volume with the directories of denied unreadable; unmounted, only
\* the root of the tree is there
SearchVolume(mounted, denied) ==
    IF ~mounted THEN (<<>> :> DirNode)
    ELSE [l \in {<<>>} \cup {SearchDirs[k] : k \in 1..Len(SearchDirs)} \cup SearchFiles |->
             IF l \in SearchFiles THEN FileNode(<<7>>)
             ELSE IF l \in denied THEN DeniedDir ELSE DirNode]

InitSearch ==
    /\ fs \in {SearchVolume(mounted, denied) :
                  mounted \in BOOLEAN,
                  denied \in SUBSET {SearchDirs[k] : k \in 1..Len(SearchDirs)}}
    /\ base_dir = <<<<"v">>>>
    /\ upload_dir = <<<<"v">>>>
    /\ calls = [c \in Slots |-> Idle]
    /\ hist = <<>>
    /\ reasm = <<>>
    /\ overlap = FALSE
    /\ budget = 0
    /\ touched = {}
    /\ fs0 = fs
    /\ file_chunks = 1

SearchStep ==
    /\ Len(hist) < MaxSearches
    /\ \E query \in QueriesOf(MaxQuery) : search(query)

NextSearch == SearchStep

SpecSearch == InitSearch /\ [][NextSearch]_vars

(***************************************************************************)
(* Properties of the session of a.txt uploaded into the volume root.       *)
(***************************************************************************)
TheFile == Rel(<<FileA>>)
DestPath == file_path(UPLOAD_DIR, TheFile)
TempPath == temp_path(UPLOAD_DIR, TheFile)
ScratchPath == file_chunks_dir(UPLOAD_DIR, TheFile)

\* the chunks 0..n-1 one after the other: the file uploaded whole
RECURSIVE ChunkConcat(_)
ChunkConcat(n) == IF n = 0 THEN <<>> ELSE ChunkConcat(n - 1) \o ChunkData(n - 1)

Whole(n) == [there |-> TRUE, data |-> ChunkConcat(n)]

IsChunkOf(h, n) ==
    h.op = "upload_chunk" /\ h.fname = TheFile /\ h.dir = UPLOAD_DIR /\ h.total = n

\* the requests so far are one upload_chunk per index of a session of n chunks
OncePerIndex(n) ==
    /\ Len(hist) = n
    /\ \A k \in 1..n : IsChunkOf(hist[k], n)
    /\ \A i \in 0..(n - 1) : \E k \in 1..n : hist[k].idx = i

\* the upload began in a directory without the destination and without
\* part-files
FreshStart == ~exists(fs0, DestPath) /\ ~exists(fs0, ScratchPath)

\* the places of a handler inside the reassembly block (app.py 236-258)
ReassemblyPcs == {"temp_open", "loop", "read", "temp_write", "cleanup"}
Reassembling == {c \in Slots : calls[c].pc \in ReassemblyPcs}

\* C1: after one upload_chunk per index 0..N-1, delivered one after the other
\* in any order into a directory without the destination, the destination
\* holds the chunks in ascending index order.
C1_AnyArrivalOrder ==
    \A n \in 1..MaxChunks :
        (InFlight = {} /\ ~overlap /\ FreshStart /\ OncePerIndex(n))
            => Content(fs, DestPath) = Whole(n)

\* C2: after the upload_chunk calls of all indices of a session ran
\* concurrently, there is one destination file holding the chunks in ascending
\* order and the scratch directory is gone.
C2_ConcurrentChunks ==
    \A n \in 1..MaxChunks :
        (InFlight = {} /\ overlap /\ FreshStart /\ OncePerIndex(n))
            => /\ Content(fs, DestPath) = Whole(n)
               /\ ~exists(fs, ScratchPath)

\* every request so far names the same total_chunks
SameTotal ==
    \E n \in 1..MaxChunks :
        /\ \A k \in 1..Len(hist) : hist[k].op = "upload_chunk" => hist[k].total = n
        /\ \A c \in InFlight : calls[c].total = n

\* C3: the reassembly block is entered at most once for a session, whatever
\* chunks of it are delivered: never two handlers inside it together, never a
\* second attempt after a first.
C3_OneReassembly ==
    SameTotal =>
        /\ Cardinality(Reassembling) <= 1
        /\ \A key \in DOMAIN reasm : reasm[key] <= 1

\* C7: a handler is inside the reassembly block only if every part-file of
\* the session was there when it entered.
C7_ReassemblyOnlyWhenComplete ==
    \A c \in Reassembling : calls[c].complete

\* a file name as a client gives it to a file: one name, not ".."
PlainName(p) == ~p.abs /\ Len(p.segs) = 1 /\ p.segs[1] # DotDot

\* a finished upload_chunk of the last index, of a file with a plain name
\* into a directory of the volume, that ran with no other request in flight
LastChunkAlone(h) ==
    /\ h.op = "upload_chunk" /\ h.alone /\ is_last_chunk(h.idx, h.total)
    /\ PlainName(h.fname) /\ h.valid /\ InVolume(fs0, h.dir)

Conflict(h) ==
    LastChunkAlone(h) /\ h.before.there /\ h.complete

\* the conflict at k, the destination then deleted, the last index sent again
RetryAfterConflict(k) ==
    /\ k + 2 <= Len(hist)
    /\ Conflict(hist[k])
    /\ hist[k + 1].op = "delete" /\ hist[k + 1].alone /\ hist[k + 1].code = "OK"
    /\ hist[k + 1].dir = hist[k].dir /\ hist[k + 1].fname = hist[k].fname
    /\ LastChunkAlone(hist[k + 2])
    /\ hist[k + 2].total = hist[k].total /\ hist[k + 2].fname = hist[k].fname

\* C9: on a filesystem whose calls succeed, the last chunk arriving while
\* the destination exists fails, leaves the destination as it was and every
\* part-file in place; once the destination is deleted, the last chunk sent
\* again completes the file.
C9_ConflictKeepsSession ==
    \A k \in 1..Len(hist) :
        /\ (LastChunkAlone(hist[k]) /\ hist[k].before.there)
              => /\ hist[k].res = "error"
                 /\ hist[k].dest = hist[k].before
                 /\ (hist[k].parts0 \cup {hist[k].idx}) \subseteq hist[k].parts
        /\ RetryAfterConflict(k)
              => /\ hist[k + 2].res = "complete"
                 /\ hist[k + 2].dest = Whole(hist[k].total)

\* C9, its case: a retry after a conflict of a session of several chunks
C9_Witness ==
    \E k \in 1..Len(hist) : RetryAfterConflict(k) /\ hist[k].total > 1

\* the last request that was answered
LastResult == hist[Len(hist)]

\* C15: when the reassembly of a chunk that was served alone failed for a
\* missing part-file, or succeeded, the scratch directory of the session
\* is gone once the call has returned.
C15_ScratchRemovedAtEnd ==
    (/\ InFlight = {}
     /\ hist # <<>>
     /\ LastResult.op = "upload_chunk"
     /\ LastResult.alone
     /\ LastResult.why = "missing" \/ LastResult.res = "complete")
        => ~exists(fs, ScratchPath)

\* C18: a delete of an item that is missing from the volume root, a valid
\* directory, is not an error.
C18_DeleteIdempotent ==
    \A k \in 1..Len(hist) :
        (/\ hist[k].op = "delete"
         /\ hist[k].dir = UPLOAD_DIR
         /\ ~hist[k].item0.there)
            => hist[k].code = "OK"

(***************************************************************************)
(* Properties of the requests of SpecOps.                                  *)
(***************************************************************************)
\* a path argument with a ".." segment or an absolute prefix
Escaping(p) == p.abs \/ \E k \in 1..Len(p.segs) : p.segs[k] = DotDot

\* C4: validate_path applied to UPLOAD_DIR / p accepts no path outside the
\* volume, and fails with ACCESS_DENIED or PATH_NOT_FOUND for every p that
\* has a ".." segment or an absolute prefix, whether or not the location exists.
C4_ValidateRejectsEscapes ==
    \A p \in OpsPaths \cup ItemNames, require_dir \in BOOLEAN :
        LET v == validate_path(fs, base_dir, Join(UPLOAD_DIR, p), require_dir)
        IN  /\ v = "OK" => InVolume(fs, Join(UPLOAD_DIR, p))
            /\ Escaping(p) => v \in {"ACCESS_DENIED", "PATH_NOT_FOUND"}

\* the destination name holds nothing or the whole uploaded file
AbsentOrComplete(held) ==
    held = [there |-> FALSE, data |-> <<>>] \/ held = [there |-> TRUE, data |-> FileData]

\* C5: while an upload runs and after it ended, with success or with a
\* failure, the destination name is absent or holds the complete content.
C5_DestinationAbsentOrComplete ==
    /\ \A c \in InFlight :
           calls[c].op = "upload"
               => AbsentOrComplete(Content(fs, file_path(calls[c].dir, calls[c].fname)))
    /\ \A k \in 1..Len(hist) :
           (hist[k].op = "upload" /\ hist[k].valid /\ ~hist[k].before.there)
               => AbsentOrComplete(hist[k].dest)

\* a rename with a new name, a move or an upload whose arguments passed the
\* validation and whose destination name was taken
DestinationTaken(h) ==
    /\ h.op \in {"rename", "move", "upload"}
    /\ h.valid
    /\ h.before.there

\* C8: a rename, a move or an upload whose destination name exists fails
\* with ITEM_EXISTS and leaves the whole tree as it was: the item and the
\* destination as they were, the temporary name of an upload as it was.
C8_ExistingDestinationRefused ==
    \A k \in 1..Len(hist) :
        DestinationTaken(hist[k])
            => /\ hist[k].code = "ITEM_EXISTS"
               /\ hist[k].status = 400
               /\ hist[k].kept
               /\ hist[k].dest = hist[k].before
               /\ hist[k].temp = hist[k].temp0

\* C8, its case: a move inside the volume met a taken destination name
C8_Witness ==
    \E k \in 1..Len(hist) :
        /\ DestinationTaken(hist[k])
        /\ hist[k].dir = UPLOAD_DIR
        /\ hist[k].op = "move"
        /\ hist[k].to = Append(UPLOAD_DIR, Sub)
        /\ hist[k].fname = Rel(<<FileA>>)

\* C10: every path that a request created, wrote, renamed to or deleted has
\* the string of the volume root as a prefix.
C10_TouchedUnderRoot ==
    \A path \in touched : startswith(Str(path), Str(UPLOAD_DIR))

(***************************************************************************)
(* Properties of the two uploads of SpecTwo.                               *)
(***************************************************************************)
\* the handler in slot c has opened its temporary file and has not yet
\* renamed or unlinked it
HoldsTemp(c) == calls[c].pc \in {"loop", "read", "temp_write", "u_write", "u_rename"}

\* C11: two requests in flight with different destination names never hold
\* the same temporary path, and a file that was in the directory before the
\* uploads is not written or removed through a temporary path.
C11_TempOwnedByOne ==
    /\ \A c \in Slots, d \in Slots :
           (c # d /\ HoldsTemp(c) /\ HoldsTemp(d)
                 /\ file_path(calls[c].dir, calls[c].fname)
                        # file_path(calls[d].dir, calls[d].fname))
               => temp_path(calls[c].dir, calls[c].fname)
                      # temp_path(calls[d].dir, calls[d].fname)
    /\ is_file(fs0, Append(UPLOAD_DIR, FileTmp))
           => Content(fs, Append(UPLOAD_DIR, FileTmp))
                  = Content(fs0, Append(UPLOAD_DIR, FileTmp))

\* the finished upload_chunk calls of the session of filename in the root
OwnChunks(filename) ==
    {k \in 1..Len(hist) : hist[k].op = "upload_chunk" /\ hist[k].fname = filename}

\* the session received each of its chunks once, in ascending order, no two
\* of its own calls in flight together, next to chunked uploads only
ReceivedAll(filename) ==
    /\ \A k \in 1..Len(hist) : hist[k].op = "upload_chunk"
    /\ \A i \in 0..(file_chunks - 1) :
           Cardinality({k \in OwnChunks(filename) : hist[k].idx = i}) = 1
    /\ \A k \in OwnChunks(filename), l \in OwnChunks(filename) :
           k < l => (hist[k].idx < hist[l].idx /\ hist[k].alone /\ hist[l].alone)

RECURSIVE WholeOf(_, _)
WholeOf(filename, n) ==
    IF n = 0 THEN <<>> ELSE WholeOf(filename, n - 1) \o DataOf(filename, n - 1)

\* C12: on a filesystem whose calls succeed, a session that received all its
\* chunks has its destination holding its own chunks in ascending order,
\* whatever the session of the other file did meanwhile.
C12_SessionsIndependent ==
    (InFlight = {} /\ budget = MaxFaults /\ ~exists(fs0, Append(UPLOAD_DIR, FileTmp)))
        => \A filename \in TwoNames :
               ReceivedAll(filename)
                   => Content(fs, file_path(UPLOAD_DIR, filename))
                          = [there |-> TRUE, data |-> WholeOf(filename, file_chunks)]

(***************************************************************************)
(* Properties of the requests of SpecDir.                                  *)
(***************************************************************************)
\* what the tree holds at path and below it, relative to path
Held(f, path) ==
    LET r == Resolve(f, path)
    IN  IF ~exists(f, path) THEN {}
        ELSE {<<SubSeq(l, Len(r.at) + 1, Len(l)), f[l]>> :
                 l \in {x \in DOMAIN f : IsPrefix(r.at, x)}}

\* how often the name is in the list of names
Times(names, n) == Cardinality({k \in 1..Len(names) : names[k] = n})

FailedNames(h) == [k \in 1..Len(h.failed) |-> h.failed[k].name]

\* the item of that name went from the source to the destination directory
Moved(h, n) ==
    /\ exists(h.tree0, Join(h.dir, n))
    /\ Held(h.tree, Join(h.to, n)) = Held(h.tree0, Join(h.dir, n))
    /\ ~exists(h.tree, Join(h.dir, n))

\* the second of three items collides, the first and the third can move
SecondCollides(h) ==
    /\ h.op = "move_multiple" /\ h.code = "OK" /\ Len(h.names) = 3
    /\ h.dir # h.to
    /\ \A k \in 1..3 : exists(h.tree0, Join(h.dir, h.names[k]))
    /\ \A k \in 1..3 : exists(h.tree0, Join(h.to, h.names[k])) <=> (k = 2)

UntitledName(i) ==
    IF i = 0 THEN Rel(<<base_name>>)
    ELSE Rel(<<base_name \o <<" ">> \o IntStr(i)>>)

\* the request was for a directory of the volume
OnValidDirectory(h) ==
    h.op = "create_folder" /\ validate_path(h.tree0, UPLOAD_DIR, h.dir, TRUE) = "OK"

\* the tree g is the tree f with one more entry, an empty directory at path
OneMoreFolder(f, g, path) ==
    LET loc == Resolve(f, path).at
    IN  /\ DOMAIN g = DOMAIN f \cup {loc}
        /\ loc \notin DOMAIN f
        /\ g[loc] = DirNode
        /\ \A l \in DOMAIN f : g[l] = f[l]

\* C20: on a filesystem whose calls succeed, create_folder on a valid
\* directory returns, having created the first name of
\* 'Untitled Folder', 'Untitled Folder 1', 'Untitled Folder 2', ... that
\* does not exist there and nothing else, so 'Untitled Folder 2' where the
\* first two names exist, and it leaves every existing entry as it was.
C20_CreateFolderFirstFree ==
    \A k \in 1..Len(hist) :
           hist[k].op = "create_folder"
               => LET h == hist[k]
                  IN  /\ \A l \in DOMAIN h.tree0 :
                             l \in DOMAIN h.tree /\ h.tree[l] = h.tree0[l]
                      /\ OnValidDirectory(h)
                             => /\ h.code = "OK"
                                /\ \E i \in 0..(Cardinality(Untitled) + MaxDirOps) :
                                       /\ h.name = UntitledName(i)
                                       /\ \A j \in 0..(i - 1) :
                                              exists(h.tree0, Join(h.dir, UntitledName(j)))
                                /\ OneMoreFolder(h.tree0, h.tree, Join(h.dir, h.name))
                      /\ (OnValidDirectory(h)
                            /\ exists(h.tree0, Join(h.dir, UntitledName(0)))
                            /\ exists(h.tree0, Join(h.dir, UntitledName(1)))
                            /\ ~exists(h.tree0, Join(h.dir, UntitledName(2))))
                             => h.name = UntitledName(2)

C20_Witness ==
    \E k \in 1..Len(hist) :
        /\ OnValidDirectory(hist[k])
        /\ exists(hist[k].tree0, Join(hist[k].dir, UntitledName(0)))
        /\ exists(hist[k].tree0, Join(hist[k].dir, UntitledName(1)))
        /\ hist[k].name = UntitledName(2)
        /\ is_dir(fs, Join(hist[k].dir, UntitledName(2)))

(***************************************************************************)
(* Properties of the failures of the requests of SpecOps.                  *)
(***************************************************************************)
\* the write to the temporary file or its rename failed in the request
WriteOrRenameFailed(h) ==
    h.op \in {"upload", "upload_chunk"} /\ h.why \in {"write", "rename"}

TookChunk(k, dir) ==
    /\ hist[k].op = "upload_chunk"
    /\ hist[k].dir = dir
    /\ hist[k].res \in {"chunk_received", "complete"}

\* C16: a session of two chunks that got chunk 0, then saw the root changed
\* with success, then got chunk 1, completes into the directory in which it
\* was started, with both chunks.
C16_SessionSurvivesChange ==
    (/\ InFlight = {}
     /\ Len(hist) = 3
     /\ file_chunks = 2
     /\ hist[1].op = "upload_chunk" /\ hist[1].idx = 0
     /\ hist[1].res = "chunk_received"
     /\ hist[2].op = "change_directory" /\ hist[2].code = "OK"
     /\ hist[3].op = "upload_chunk" /\ hist[3].idx = 1)
        => /\ hist[3].res = "complete"
           /\ Content(fs, file_path(hist[1].dir, Rel(<<FileA>>)))
                  = [there |-> TRUE, data |-> hist[1].data \o hist[3].data]

\* the request l sends again a chunk, not the last one, that its session
\* holds already
SentAgain(l) ==
    /\ hist[l].op = "upload_chunk"
    /\ hist[l].valid
    /\ hist[l].idx # hist[l].total - 1
    /\ hist[l].partdata0[hist[l].idx].there

\* the bytes the session of directory dir took last for chunk i, up to
\* request l
RECURSIVE LastData(_, _, _)
LastData(l, dir, i) ==
    IF l = 0 THEN <<>>
    ELSE IF TookChunk(l, dir) /\ hist[l].idx = i THEN hist[l].data
    ELSE LastData(l - 1, dir, i)

RECURSIVE LastWritten(_, _, _)
LastWritten(l, dir, n) ==
    IF n = 0 THEN <<>>
    ELSE LastWritten(l, dir, n - 1) \o LastData(l, dir, n - 1)

\* C17: a chunk other than the last that is sent again is received, its
\* part-file then holds the bytes of this call and the other part-files
\* what they held, and a reassembled file holds for every index the bytes
\* sent last.
C17_LastWriteWins ==
    \A l \in 1..Len(hist) :
        /\ SentAgain(l)
               => /\ hist[l].res = "chunk_received"
                  /\ hist[l].partdata[hist[l].idx]
                         = [there |-> TRUE, data |-> hist[l].data]
                  /\ \A j \in 0..(hist[l].total - 1) :
                         j # hist[l].idx
                             => hist[l].partdata[j] = hist[l].partdata0[j]
        /\ (hist[l].op = "upload_chunk" /\ hist[l].res = "complete")
               => hist[l].dest
                      = [there |-> TRUE,
                         data |-> LastWritten(l, hist[l].dir, hist[l].total)]

C17_Witness ==
    /\ Len(hist) = 3
    /\ SentAgain(2)
    /\ hist[1].data # hist[2].data
    /\ hist[3].res = "complete"
    /\ hist[3].dest.data = hist[2].data \o hist[3].data

(***************************************************************************)
(* Properties of the requests of SpecGuard.                                *)
(***************************************************************************)
\* the checks of validate_path that the path fails, each taken alone
Failing(f, base, path, require_dir) ==
    {code \in {"VOLUME_NOT_MOUNTED", "PATH_NOT_FOUND", "ACCESS_DENIED",
               "DIRECTORY_NOT_FOUND"} :
        \/ code = "VOLUME_NOT_MOUNTED" /\ ~exists(f, base)
        \/ code = "PATH_NOT_FOUND" /\ ~exists(f, path)
        \/ code = "ACCESS_DENIED" /\ ~startswith(Str(path), Str(base))
        \/ code = "DIRECTORY_NOT_FOUND" /\ require_dir /\ ~is_dir(f, path)}

\* the place of a check in the order of the claim
Rank(code) ==
    CASE code = "VOLUME_NOT_MOUNTED" -> 1
      [] code = "PATH_NOT_FOUND" -> 2
      [] code = "ACCESS_DENIED" -> 3
      [] OTHER -> 4

FirstFailing(f, base, path, require_dir) ==
    LET failing == Failing(f, base, path, require_dir)
    IN  IF failing = {} THEN "OK"
        ELSE CHOOSE code \in failing : \A d \in failing : Rank(code) <= Rank(d)

DirectoryScoped ==
    {"get_contents", "upload", "upload_chunk", "create_folder", "rename",
     "delete", "move", "move_multiple"}

\* C19: validate_path reports the first check that fails in the order root
\* exists, path exists, path string starts with the root string, path is a
\* directory; and the first request of a behaviour, whatever operation it
\* is, ends with that error when its directory fails a check, move_multiple
\* also when its destination does.
C19_FirstFailingCheck ==
    /\ \A p \in GuardPaths, require_dir \in BOOLEAN :
           validate_path(fs, base_dir, Join(upload_dir, p), require_dir)
               = FirstFailing(fs, base_dir, Join(upload_dir, p), require_dir)
    /\ (hist # <<>> /\ hist[1].op \in DirectoryScoped)
           => LET h == hist[1]
                  e == FirstFailing(fs0, UPLOAD_DIR, h.dir, TRUE)
              IN  /\ e # "OK" => (h.code = e /\ h.res = "error")
                  /\ (e = "OK" /\ h.op = "move_multiple"
                        /\ FirstFailing(fs0, UPLOAD_DIR, h.to, TRUE) # "OK")
                         => h.code = FirstFailing(fs0, UPLOAD_DIR, h.to, TRUE)

\* a request for a file outside the volume: it fails the third and the
\* fourth check and ends with the error of the third
C19_Witness ==
    /\ hist # <<>>
    /\ hist[1].op = "create_folder"
    /\ Failing(fs0, UPLOAD_DIR, hist[1].dir, TRUE)
           = {"ACCESS_DENIED", "DIRECTORY_NOT_FOUND"}
    /\ hist[1].code = "ACCESS_DENIED"

(***************************************************************************)
(* Properties of the errors the requests of SpecOps end with.              *)
(***************************************************************************)
\* the errors of FileSystemError (app.py 52-59)
TypedCodes ==
    {"VOLUME_NOT_MOUNTED", "PATH_NOT_FOUND", "ACCESS_DENIED",
     "DIRECTORY_NOT_FOUND", "NO_FILE_UPLOADED", "ITEM_EXISTS"}

\* C21: an upload, upload_chunk, rename, delete or move that does not
\* return ends with one of the errors of FileSystemError, whichever of its
\* filesystem calls failed.
C21_NoRawError ==
    \A k \in 1..Len(hist) :
        hist[k].op \in {"upload", "upload_chunk", "rename", "delete", "move"}
            => hist[k].code \in TypedCodes \cup {"OK"}

\* the request met a destination name that exists
Collision(h) ==
    \/ DestinationTaken(h)
    \/ h.op = "upload_chunk" /\ h.why = "exists"

\* a filesystem call of the request failed after its validation
FilesystemFailure(h) ==
    /\ h.op \in {"upload", "upload_chunk"}
    /\ h.why \in {"mkdir", "open", "read", "write", "rename", "rmtree", "getsize"}

\* C22: a request that met a destination collision ends with ITEM_EXISTS,
\* status 400; one whose validation failed with the status of its error,
\* 400, 404, 403 or 404; one whose filesystem call failed with status 500.
C22_MappedStatus ==
    \A k \in 1..Len(hist) :
        /\ Collision(hist[k])
               => (hist[k].code = "ITEM_EXISTS" /\ hist[k].status = 400)
        /\ hist[k].code \in TypedCodes
               => hist[k].status = StatusOf(hist[k].code)
        /\ FilesystemFailure(hist[k]) => hist[k].status = 500

(***************************************************************************)
(* Properties of the failed validations of the requests of SpecGuard.      *)
(***************************************************************************)
\* validate_path fails for the directory of the request, for its item or
\* for its destination directory, on the tree the behaviour began with
ValidationFails(h) ==
    \/ validate_path(fs0, UPLOAD_DIR, h.dir, TRUE) # "OK"
    \/ /\ h.op \in {"rename", "delete", "move"}
       /\ validate_path(fs0, UPLOAD_DIR, Join(h.dir, h.fname), FALSE) # "OK"
    \/ /\ h.op = "move"
       /\ validate_path(fs0, UPLOAD_DIR, h.to, TRUE) # "OK"

\* the first request of the behaviour has just ended
FirstEnded == Len(hist) = 1 /\ InFlight = {}

\* C23: after an upload, upload_chunk, create_folder, rename, delete or move
\* whose validation failed the request has ended with an error and the
\* tree is what it was before the request.
C23_FailedValidationKeepsTree ==
    (/\ FirstEnded
     /\ hist[1].op \in {"upload", "upload_chunk", "create_folder", "rename",
                        "delete", "move"}
     /\ ValidationFails(hist[1]))
        => /\ hist[1].res = "error"
           /\ hist[1].code \in {"VOLUME_NOT_MOUNTED", "PATH_NOT_FOUND",
                                "ACCESS_DENIED", "DIRECTORY_NOT_FOUND"}
           /\ fs = fs0

\* C23, its case: a move of an item that exists, from a valid directory to
\* a destination that fails the validation
C23_Witness ==
    /\ FirstEnded
    /\ hist[1].op = "move"
    /\ validate_path(fs0, UPLOAD_DIR, hist[1].dir, TRUE) = "OK"
    /\ validate_path(fs0, UPLOAD_DIR, Join(hist[1].dir, hist[1].fname), FALSE) = "OK"
    /\ validate_path(fs0, UPLOAD_DIR, hist[1].to, TRUE) = "PATH_NOT_FOUND"
    /\ hist[1].code = "PATH_NOT_FOUND"
    /\ fs = fs0

(***************************************************************************)
(* Properties of the requests of SpecRange.                                *)
(***************************************************************************)
\* the chunk index of the request lies in [0, total_chunks)
InRange(idx, total) == 0 <= idx /\ idx < total

\* the requests, answered or in flight, that sent chunk i in range
SentInRange(i) ==
    \/ \E k \in 1..Len(hist) :
           hist[k].op = "upload_chunk" /\ hist[k].idx = i
               /\ InRange(i, hist[k].total)
    \/ \E c \in InFlight : calls[c].idx = i /\ InRange(i, calls[c].total)

\* C24: every part-file of the scratch directory of a.txt was sent by a
\* request whose index lies in [0, total_chunks), and a request whose index
\* lies outside ends with an error and leaves the destination as it was.
C24_PartIndicesInRange ==
    /\ \A i \in (0 - 1)..(file_chunks + 1) :
           exists(fs, part_path(UPLOAD_DIR, Rel(<<FileA>>), i)) => SentInRange(i)
    /\ \A k \in 1..Len(hist) :
           (hist[k].op = "upload_chunk" /\ ~InRange(hist[k].idx, hist[k].total))
               => (hist[k].res = "error" /\ hist[k].dest = hist[k].before)
(***************************************************************************)
(* Properties of the socket operations.                                    *)
(***************************************************************************)
\* what the tree holds outside of the volume
OutsideVolume(f) ==
    [l \in {x \in DOMAIN f : ~IsPrefix(PathOf(VolumePath), x)} |-> f[l]]

\* a sanitized name that stays below the directory it is joined to
StaysInside(safe) ==
    /\ ~startswith(safe, <<"/">>)
    /\ \A k \in 1..Len(split(safe)) : split(safe)[k] # <<".", ".">>

\* C25: for every file_name the name that sanitize_path returns does not
\* start with "/" and has no ".." segment, and save_file, delete_file,
\* create_folder and delete_folder leave everything outside of volume_path
\* as it was.
C25_SanitizedInsideVolume ==
    /\ \A k \in 1..Len(hist) : StaysInside(hist[k].safe)
    /\ OutsideVolume(fs) = OutsideVolume(fs0)

\* every chunk of the file was delivered and handled
AllHandled ==
    /\ InFlight = {}
    /\ \A k \in 0..(file_chunks - 1) :
           \E n \in 1..Len(hist) : hist[n].idx = k /\ hist[n].success

\* C26: once all the chunks of the file were handled, in whatever order and
\* however the handlers overlapped, the file holds the bytes of the chunks
\* in ascending offset order.
C26_ContentInOffsetOrder ==
    AllHandled =>
        /\ is_file(fs, PathOf(os_path_join(VolumePath, <<"a">>)))
        /\ Content(fs, PathOf(os_path_join(VolumePath, <<"a">>))).data
               = [k \in 1..file_chunks |-> k - 1]

(***************************************************************************)
(* Properties of search.                                                   *)
(***************************************************************************)
\* the entry at loc can be reached: every directory from the root of the
\* volume down to its parent can be enumerated
Reachable(loc) ==
    /\ IsPrefix(base_dir, loc) /\ loc # base_dir /\ loc \in DOMAIN fs
    /\ \A n \in Len(base_dir)..(Len(loc) - 1) : fs[SubSeq(loc, 1, n)] = DirNode

\* the entries a search of query is to return
Matching(query) ==
    {loc \in DOMAIN fs :
        Reachable(loc) /\ contains(lower(query), lower(loc[Len(loc)]))}

\* the entry of a result for the location loc
EntryOf(loc) ==
    [name |-> loc[Len(loc)],
     path |-> join_comps(SubSeq(loc, Len(base_dir) + 1, Len(loc)))]

Range(sq) == {sq[k] : k \in 1..Len(sq)}

NoRepeat(sq) == \A j, k \in 1..Len(sq) : sq[j] = sq[k] => j = k

\* C27: search(query) returns the entries below the root whose name holds
\* query whatever the case of the letters and that lie in no directory
\* that cannot be enumerated, each once, the files in 'files' and the
\* directories in 'folders', each with its path relative to the root; the
\* entries next to an unreadable directory are returned.
C27_SearchReturnsReadableMatches ==
    \A n \in 1..Len(hist) :
        hist[n].op = "search" =>
            /\ Range(hist[n].files)
                   = {EntryOf(loc) : loc \in {x \in Matching(hist[n].query) : IsFileAt(fs, x)}}
            /\ Range(hist[n].folders)
                   = {EntryOf(loc) : loc \in {x \in Matching(hist[n].query) : IsDirAt(fs, x)}}
            /\ NoRepeat(hist[n].files) /\ NoRepeat(hist[n].folders)

\* a search that matched files and folders next to an unreadable directory
\* holding a file of a matching name
C27_Witness ==
    \E n \in 1..Len(hist) :
        /\ hist[n].op = "search" /\ hist[n].query = <<"B">>
        /\ exists(fs, base_dir)
        /\ fs[<<<<"v">>, <<"A", "b">>>>] = DeniedDir
        /\ fs[<<<<"v">>, <<"b">>>>] = DirNode
        /\ [name |-> <<"b", "a">>, path |-> <<"b", "/", "b", "a">>] \in Range(hist[n].files)
        /\ [name |-> <<"A", "b">>, path |-> <<"A", "b">>] \in Range(hist[n].folders)
        /\ Len(hist[n].files) = 1 /\ Len(hist[n].folders) = 2

(***************************************************************************)
(* Properties of the listings.                                             *)
(***************************************************************************)
\* the names a listing returned
Listed(h) == {e.name : e \in h.files} \cup {e.name : e \in h.folders}

\* C28: no listing of get_contents holds a temporary file of an upload or
\* of a reassembly, nor the scratch directory '.chunks', neither during a
\* session nor after the sessions of the directory have ended.
C28_ListingHidesArtifacts ==
    \A n \in 1..Len(hist) :
        hist[n].op = "get_contents" =>
            \A name \in Listed(hist[n]) :
                name # <<".chunks">> /\ suffix(name) # <<".tmp">>

(***************************************************************************)
(* Properties of the call for the last chunk.                              *)
(***************************************************************************)
\* the request was upload_chunk for the last chunk of its session
ForLastChunk(h) == h.op = "upload_chunk" /\ h.idx = h.total - 1

\* C29: an upload_chunk call for the last chunk that returned an error,
\* at whatever step it failed, has made no destination file: after it the
\* destination exists only if it existed before; and a call that returned
\* 'complete' leaves the destination in place.
C29_FailedCallLeavesNoOutput ==
    \A k \in 1..Len(hist) :
        ForLastChunk(hist[k]) =>
            /\ hist[k].res = "error" => (hist[k].dest.there => hist[k].before.there)
            /\ hist[k].res = "complete" => hist[k].dest.there

(***************************************************************************)
(* Properties of create_folder calls that run together.                    *)
(***************************************************************************)
\* the k-th answer is a success of create_folder
Created(k) == hist[k].op = "create_folder" /\ hist[k].code = "OK"

\* the k-th answer is the failure of the mkdir of create_folder
LostRace(k) ==
    /\ hist[k].op = "create_folder" /\ hist[k].res = "error"
    /\ validate_path(hist[k].tree0, UPLOAD_DIR, hist[k].dir, TRUE) = "OK"

\* C30: of create_folder calls on one directory whose tests and mkdir
\* interleave, no two return success with the same name; a successful call
\* made a directory that did not exist before, and a call whose mkdir
\* failed answers ACCESS_DENIED and leaves the tree, with the directory the
\* other call made, as it was.
C30_CreateFolderRace ==
    /\ \A j, k \in 1..Len(hist) :
           (j # k /\ Created(j) /\ Created(k) /\ hist[j].dir = hist[k].dir)
               => hist[j].name # hist[k].name
    /\ \A k \in 1..Len(hist) :
           Created(k) => OneMoreFolder(hist[k].tree0, hist[k].tree,
                                       Join(hist[k].dir, hist[k].name))
    /\ \A k \in 1..Len(hist) :
           LostRace(k) => /\ hist[k].code = "ACCESS_DENIED"
                          /\ hist[k].status = 403
                          /\ hist[k].tree = hist[k].tree0

\* two calls on the root ran together, one made 'Untitled Folder 1' and
\* the other, which had found the same name free, failed
C30_Witness ==
    /\ Len(hist) = 2 /\ overlap
    /\ Created(1) /\ hist[1].name = UntitledName(1)
    /\ LostRace(2) /\ hist[2].dir = hist[1].dir
    /\ is_dir(fs, Join(hist[1].dir, UntitledName(1)))
    /\ ~exists(fs, Join(hist[1].dir, UntitledName(2)))

(***************************************************************************)
(* Properties of the root after change_directory requests.                 *)
(***************************************************************************)
\* the k-th answer is that of a change_directory request
IsChange(k) == hist[k].op = "change_directory"

\* C31: after any sequence of change_directory requests the base_dir of
\* the FileSystem is UPLOAD_DIR, and it was set to a directory that existed
\* at that moment; a request that fails for an empty path, a missing path
\* or a path that is no directory leaves UPLOAD_DIR and the FileSystem as
\* they were.
C31_RootFollowsChangeDirectory ==
    /\ base_dir = upload_dir
    /\ \A k \in 1..Len(hist) :
           IsChange(k) =>
               /\ hist[k].base = hist[k].upload
               /\ hist[k].code = "OK" => IsDirAt(hist[k].tree, hist[k].upload)
               /\ hist[k].res = "error"
                      => /\ hist[k].code \in {"EMPTY_PATH", "NOT_FOUND", "NOT_A_DIRECTORY"}
                         /\ hist[k].upload = hist[k].upload0
                         /\ hist[k].base = hist[k].base0

\* the root was changed to the subdirectory, and then a request that names
\* a missing path and one with an empty path failed
C31_Witness ==
    /\ Len(hist) = 3
    /\ IsChange(1) /\ hist[1].code = "OK" /\ hist[1].upload = Append(UPLOAD_DIR, Sub)
    /\ IsChange(2) /\ hist[2].code = "NOT_FOUND"
    /\ IsChange(3) /\ hist[3].code = "EMPTY_PATH"
    /\ upload_dir = Append(UPLOAD_DIR, Sub) /\ base_dir = Append(UPLOAD_DIR, Sub)

(***************************************************************************)
(* Properties of the volume root under delete, rename and move.            *)
(***************************************************************************)
\* the location lies below the volume root and is not the root
StrictlyBelowRoot(loc) == IsPrefix(UPLOAD_DIR, loc) /\ loc # UPLOAD_DIR

\* the k-th answer is that of a delete, a rename or a move that was done
ActedOnItem(k) == hist[k].op \in {"delete", "rename", "move"} /\ hist[k].code = "OK"

\* the k-th answer is that of a move of an item into the directory it is in
MoveInPlace(k) ==
    /\ hist[k].op = "move" /\ hist[k].to = hist[k].dir
    /\ hist[k].item0.there
    /\ validate_path(hist[k].tree0, UPLOAD_DIR, hist[k].dir, TRUE) = "OK"
    /\ validate_path(hist[k].tree0, UPLOAD_DIR, Join(hist[k].dir, hist[k].fname), FALSE)
           = "OK"

\* C32: whatever item_name the delete, rename and move requests carry, the
\* item they delete, rename or move is strictly below the volume root,
\* which stays the directory it was; and a move into the directory the
\* item is in fails with ITEM_EXISTS and leaves the tree as it was.
C32_RootIsNeverTheItem ==
    /\ \A k \in 1..Len(hist) : ActedOnItem(k) => StrictlyBelowRoot(hist[k].loc)
    /\ IsDirAt(fs, UPLOAD_DIR)
    /\ \A k \in 1..Len(hist) :
           MoveInPlace(k) => /\ hist[k].code = "ITEM_EXISTS"
                             /\ hist[k].tree = hist[k].tree0

====
